---- MODULE Spec2Model ----
(***************************************************************************)
(* A model of the Slack bridge of ecdeng/arky: the signature verifier,     *)
(* the outbound delivery client, the duplicate-aware reminders ledger and  *)
(* the event dispatcher with its idempotency guard and background task.    *)
(*                                                                         *)
(* JavaScript strings are modelled as sequences of one-character strings,  *)
(* so that parsing, lower-casing, splitting, substring search and the      *)
(* character-by-character signature comparison are computed as the code    *)
(* computes them.                                                          *)
(***************************************************************************)
EXTENDS Integers, Sequences, FiniteSets, TLC

VARIABLES
    nowMs,      \* Date.now(): the wall clock, in milliseconds
    vcall,      \* the verifier under test: its inputs and its verdicts
    delivery,   \* one sendSlackMessage call: loop position, trace, outcome
    r2,         \* env.arky_reminders: R2 key -> blob (or Missing)
    history,    \* the captureReminder calls made so far, with their outcomes
    env,        \* the worker's secrets
    kv,         \* the idempotency KV namespace: key -> expiry time (ms)
    handlers,   \* the handleSlackEvent invocations, one per slot
    tasks,      \* the detached background task of each slot
    gen         \* one generateSlackResponse call: its inputs and what it returned

vars == <<nowMs, vcall, delivery, r2, history, env, kv, handlers, tasks, gen>>

\* undefined / null: Absent for values modelled as atoms (ids, names), Missing
\* for values modelled as character sequences (headers, texts).
Absent == "absent"
Missing == <<"undefined">>

(***************************************************************************)
(* Bounds of the model.                                                    *)
(***************************************************************************)
MaxBodyLen == 2         \* longest request body of the verifier's inputs
HashBytes == 2          \* bytes of the modelled digest (SHA-256 has 32)
MaxRetriesBound == 3    \* largest maxRetries passed to sendSlackMessage
MaxCaptures == 3        \* captureReminder calls in one behaviour
MaxRequests == 2
MaxWriters == 2        \* handleSlackEvent invocations in one behaviour

(***************************************************************************)
(* String helpers: what the JavaScript built-ins used by the code do.      *)
(***************************************************************************)
Digits == <<"0", "1", "2", "3", "4", "5", "6", "7", "8", "9">>
HexDigits == Digits \o <<"a", "b", "c", "d", "e", "f">>

IsDigit(c) == \E i \in 1..10 : Digits[i] = c
DigitValue(c) == (CHOOSE i \in 1..10 : Digits[i] = c) - 1

Abs(n) == IF n < 0 THEN -n ELSE n

RECURSIVE Pow(_, _)
Pow(b, e) == IF e = 0 THEN 1 ELSE b * Pow(b, e - 1)

RECURSIVE ParseDigits(_, _, _)
ParseDigits(s, i, acc) ==
    IF i > Len(s) \/ ~IsDigit(s[i]) THEN acc
    ELSE ParseDigits(s, i + 1, acc * 10 + DigitValue(s[i]))

\* parseInt(s) on a string without sign, leading blank or 0x prefix: the value
\* of the longest prefix of decimal digits, NaN when there is none.
RECURSIVE FormatInt(_)
\* String(n) for n >= 0
FormatInt(n) ==
    IF n < 10 THEN <<Digits[n + 1]>> ELSE Append(FormatInt(n \div 10), Digits[(n % 10) + 1])

ParsesToNaN(s) == Len(s) = 0 \/ ~IsDigit(s[1])
ParseInt(s) == ParseDigits(s, 1, 0)

\* !x for a header or field x: null, undefined and the empty string are falsy.
Truthy(s) == s # Missing /\ s # <<>>

UpperCase == <<"A", "B", "C", "D", "E", "F", "G", "H", "I", "J", "K", "L", "M",
               "N", "O", "P", "Q", "R", "S", "T", "U", "V", "W", "X", "Y", "Z">>
LowerCase == <<"a", "b", "c", "d", "e", "f", "g", "h", "i", "j", "k", "l", "m",
               "n", "o", "p", "q", "r", "s", "t", "u", "v", "w", "x", "y", "z">>
IsUpper(c) == \E i \in 1..26 : UpperCase[i] = c
IsLower(c) == \E i \in 1..26 : LowerCase[i] = c
LowerChar(c) ==
    IF IsUpper(c) THEN LowerCase[CHOOSE i \in 1..26 : UpperCase[i] = c] ELSE c
ToLowerCase(s) == [i \in 1..Len(s) |-> LowerChar(s[i])]

IsSpace(c) == c \in {" ", "\n"}

\* String.prototype.includes
Includes(hay, needle) ==
    \E i \in 0..(Len(hay) - Len(needle)) :
        \A j \in 1..Len(needle) : hay[i + j] = needle[j]

RECURSIVE TrimStart(_)
TrimStart(s) == IF Len(s) > 0 /\ IsSpace(s[1]) THEN TrimStart(Tail(s)) ELSE s
RECURSIVE TrimEnd(_)
TrimEnd(s) ==
    IF Len(s) > 0 /\ IsSpace(s[Len(s)]) THEN TrimEnd(SubSeq(s, 1, Len(s) - 1)) ELSE s
Trim(s) == TrimEnd(TrimStart(s))

\* s.split("\n"): the pieces between line feeds, empty pieces included.
RECURSIVE SplitLines(_, _)
SplitLines(s, cur) ==
    IF Len(s) = 0 THEN <<cur>>
    ELSE IF s[1] = "\n" THEN <<cur>> \o SplitLines(Tail(s), <<>>)
    ELSE SplitLines(Tail(s), Append(cur, s[1]))

\* s.split(/\s+/): the pieces between maximal runs of white space.
RECURSIVE SplitSpaces(_, _)
SplitSpaces(s, cur) ==
    IF Len(s) = 0 THEN <<cur>>
    ELSE IF IsSpace(s[1]) THEN <<cur>> \o SplitSpaces(TrimStart(s), <<>>)
    ELSE SplitSpaces(Tail(s), Append(cur, s[1]))

RECURSIVE Join(_, _)
Join(parts, sep) ==
    IF Len(parts) = 0 THEN <<>>
    ELSE IF Len(parts) = 1 THEN parts[1]
    ELSE parts[1] \o sep \o Join(Tail(parts), sep)

RECURSIVE SetToSeq(_)
SetToSeq(S) ==
    IF S = {} THEN <<>>
    ELSE LET x == CHOOSE y \in S : TRUE IN <<x>> \o SetToSeq(S \ {x})

(***************************************************************************)
(* The inbound data: Slack events, payloads and the request bodies that    *)
(* carry them.                                                             *)
(***************************************************************************)
TextHi == <<"h", "i">>
TextMention == <<"<", "@", "B", "1", ">", " ", "h", "i">>
TextOnlyMention == <<"<", "@", "B", "1", ">", " ">>
TextTwoMentions == <<"<", "@", "B", "1", ">", " ", "a", " ", "<", "@", "U", "2", ">">>

SlackEvent(type, channelType, text, user, channel, threadTs, ts, botId) ==
    [type |-> type, channel_type |-> channelType, text |-> text, user |-> user,
     channel |-> channel, thread_ts |-> threadTs, ts |-> ts, bot_id |-> botId]

EvDirect == SlackEvent("message", "im", TextHi, "U1", "D1", Absent, "1700.01", Absent)
EvDirectThread ==
    SlackEvent("message", "im", TextHi, "U2", "D2", "1699.99", "1700.02", Absent)
EvMention ==
    SlackEvent("app_mention", Absent, TextMention, "U1", "C1", Absent, "1700.03", Absent)
EvMentionEmpty ==
    SlackEvent("app_mention", Absent, TextOnlyMention, "U1", "C1", Absent, "1700.04", Absent)
EvChannelMessage ==
    SlackEvent("message", "channel", TextHi, "U1", "C1", Absent, "1700.05", Absent)
NoEvent == SlackEvent(Absent, Absent, Missing, Absent, Absent, Absent, Absent, Absent)
EvNoTs == SlackEvent("message", "im", TextHi, "U1", "D1", Absent, Absent, Absent)
EvBot == SlackEvent("message", "im", TextHi, "U1", "D1", Absent, "1700.06", "B1")
EvBotMention ==
    SlackEvent("app_mention", Absent, TextMention, Absent, "C1", Absent, "1700.07", "B1")
EvMentionThread ==
    SlackEvent("app_mention", Absent, TextTwoMentions, "U1", "C1", "1699.98", "1700.08", Absent)
EvDirectNoUser ==
    SlackEvent("message", "im", TextHi, Absent, "D1", Absent, "1700.09", Absent)
EvDirectNoChannel ==
    SlackEvent("message", "im", TextHi, "U1", Absent, Absent, "1700.10", Absent)

SlackEventPayload(type, challenge, event) ==
    [type |-> type, challenge |-> challenge, event |-> event]

\* The payloads of the model; payload k travels as the body JsonText(k).
Payloads ==
    << SlackEventPayload("url_verification", <<"a", "b", "c">>, NoEvent),
       SlackEventPayload("event_callback", Missing, EvDirect),
       SlackEventPayload("event_callback", Missing, EvDirectThread),
       SlackEventPayload("event_callback", Missing, EvMention),
       SlackEventPayload("event_callback", Missing, EvMentionEmpty),
       SlackEventPayload("event_callback", Missing, EvChannelMessage),
       SlackEventPayload("event_callback", Missing, EvNoTs),
       SlackEventPayload("event_callback", Missing, EvBot),
       SlackEventPayload("event_callback", Missing, EvBotMention),
       SlackEventPayload("event_callback", Missing, NoEvent),
       SlackEventPayload("app_rate_limited", Missing, NoEvent),
       SlackEventPayload("event_callback", Missing, EvMentionThread),
       SlackEventPayload("event_callback", Missing, EvDirectNoUser),
       SlackEventPayload("event_callback", Missing, EvDirectNoChannel) >>

JsonText(k) == <<"{", HexDigits[k + 1], "}">>
JsonNull == <<"n", "u", "l", "l">>
JsonBroken == <<"{">>
DispatchBodies == {JsonText(k) : k \in 1..Len(Payloads)} \cup {JsonNull, JsonBroken}

NoPayload == SlackEventPayload(Absent, Missing, NoEvent)

\* JSON.parse(body): the payload the text denotes, JavaScript's null for the
\* text null, and a SyntaxError thrown for any text that is not JSON.
JSONParse(body) ==
    IF body = JsonNull THEN [threw |-> FALSE, isNull |-> TRUE, payload |-> NoPayload]
    ELSE IF \E k \in 1..Len(Payloads) : body = JsonText(k)
    THEN [threw |-> FALSE, isNull |-> FALSE,
          payload |-> Payloads[CHOOSE k \in 1..Len(Payloads) : body = JsonText(k)]]
    ELSE [threw |-> TRUE, isNull |-> FALSE, payload |-> NoPayload]

(***************************************************************************)
(* Signature Verifier (verifySlackRequest).                                *)
(***************************************************************************)
ReplayWindow == 300

SlackSecret == "shhh"           \* the signing secret Slack and the worker share
Secrets == {SlackSecret, "guess"}

TimestampHeaders ==
    { <<"1", "0", "0", "0">>, <<"1", "3", "0", "0">>, <<"1", "3", "0", "1">>,
      <<"7", "0", "0">>, <<"6", "9", "9">>, <<"x">>,
      <<"8", "7", "3", "9", "9">>, <<"8", "7", "4", "0", "0">> }

RECURSIVE StringsUpTo(_, _)
StringsUpTo(alphabet, n) ==
    IF n = 0 THEN {<<>>}
    ELSE LET shorter == StringsUpTo(alphabet, n - 1)
         IN  shorter \cup {Append(s, c) : s \in shorter, c \in alphabet}

BodyChars == {"a", "b"}
VerifierBodies == StringsUpTo(BodyChars, MaxBodyLen)

SigBaseString(timestamp, body) == <<"v", "0", ":">> \o timestamp \o <<":">> \o body

\* HMAC-SHA256 is modelled as an injective function of (key, message) into
\* digests of HashBytes bytes: the rank of the pair among the keys and the
\* signature base strings the model can form, written big-endian.
SecretSeq == SetToSeq(Secrets)
TimestampSeq == SetToSeq(TimestampHeaders)
BodySeq == SetToSeq(VerifierBodies \cup DispatchBodies)

HmacRank(secret, message) ==
    LET k == CHOOSE i \in 1..Len(SecretSeq) : SecretSeq[i] = secret
        m == CHOOSE p \in (1..Len(TimestampSeq)) \X (1..Len(BodySeq)) :
                 /\ Len(TimestampSeq[p[1]]) + Len(BodySeq[p[2]]) + 4 = Len(message)
                 /\ SigBaseString(TimestampSeq[p[1]], BodySeq[p[2]]) = message
    IN  ((k - 1) * Len(TimestampSeq) + (m[1] - 1)) * Len(BodySeq) + (m[2] - 1)

HmacSha256(secret, message) ==
    LET rank == HmacRank(secret, message)
    IN  [k \in 1..HashBytes |-> (rank \div Pow(256, HashBytes - k)) % 256]

\* b.toString(16).padStart(2, "0")
ByteToHex(b) == <<HexDigits[(b \div 16) + 1], HexDigits[(b % 16) + 1]>>

RECURSIVE HashHex(_)
HashHex(bytes) ==
    IF Len(bytes) = 0 THEN <<>> ELSE ByteToHex(bytes[1]) \o HashHex(Tail(bytes))

ComputedSignature(signingSecret, timestamp, body) ==
    <<"v", "0", "=">> \o HashHex(HmacSha256(signingSecret, SigBaseString(timestamp, body)))

\* The window check without Math.abs, which lets timestamps of the future
\* through (not what the code does).
TimestampTooOldPastOnly(clock, timestamp) ==
    LET currentTime == clock \div 1000
    IN  IF ParsesToNaN(timestamp) THEN FALSE
        ELSE currentTime - ParseInt(timestamp) > ReplayWindow

\* Math.abs(currentTime - parseInt(timestamp)) > 60 * 5; a comparison with NaN
\* is false.
TimestampTooOld(clock, timestamp) ==
    LET currentTime == clock \div 1000
    IN  IF ParsesToNaN(timestamp) THEN FALSE
        ELSE Abs(currentTime - ParseInt(timestamp)) > ReplayWindow

\* for (i ...) result |= computed.charCodeAt(i) ^ signature.charCodeAt(i):
\* result stays nonzero once two characters differ; every position is read.
RECURSIVE CompareLoop(_, _, _, _)
CompareLoop(computed, signature, i, acc) ==
    IF i > Len(computed) THEN acc
    ELSE CompareLoop(computed, signature, i + 1,
             [nonzero |-> acc.nonzero \/ computed[i] # signature[i],
              inspected |-> acc.inspected + 1])

NoVerdict == [result |-> FALSE, decidedBy |-> "none", inspected |-> 0]

\* The verdict: the boolean returned, the check that decided it, and the
\* number of character positions the comparison read.
verifySlackRequest(signingSecret, timestamp, body, signature, clock) ==
    IF TimestampTooOld(clock, timestamp)
    THEN [result |-> FALSE, decidedBy |-> "window", inspected |-> 0]
    ELSE LET computedSignature == ComputedSignature(signingSecret, timestamp, body)
         IN  IF Len(computedSignature) # Len(signature)
             THEN [result |-> FALSE, decidedBy |-> "length", inspected |-> 0]
             ELSE LET loop == CompareLoop(computedSignature, signature, 1,
                                          [nonzero |-> FALSE, inspected |-> 0])
                  IN  [result |-> ~loop.nonzero, decidedBy |-> "compare",
                       inspected |-> loop.inspected]

(***************************************************************************)
(* Outbound Delivery Client (sendSlackMessage).                            *)
(***************************************************************************)
DefaultMaxRetries == 3

\* What one chat.postMessage call can report: ok, rate_limited with or
\* without a Retry-After header, another Slack error (result.error may be
\* missing), or a failure of fetch / response.json() itself.
RetryAfterHeaders == {Missing, <<"0">>, <<"2">>, <<"x">>}
Outcome(kind, error, retryAfter) ==
    [kind |-> kind, error |-> error, retryAfter |-> retryAfter]
ProviderOutcomes ==
    {Outcome("ok", Absent, Missing)}
    \cup {Outcome("rate_limited", "rate_limited", h) : h \in RetryAfterHeaders}
    \cup {Outcome("error", e, Missing) : e \in {"channel_not_found", Absent}}
    \cup {Outcome("throw", "fetch failed", Missing)}

NewSend(maxRetries) ==
    [maxRetries |-> maxRetries, attempt |-> 0, lastError |-> Absent,
     status |-> "running", error |-> Absent, waited |-> <<>>]

\* The loop guard written with <= (not what the code does).
LoopContinuesInclusive(st) == st.attempt <= st.maxRetries

\* for (let attempt = 0; attempt < maxRetries; attempt++)
LoopContinues(st) == st.attempt < st.maxRetries

\* Math.pow(2, attempt) * 1000
BackoffMs(attempt) == Pow(2, attempt) * 1000

\* The rate-limit wait that ignores the Retry-After header (not what the code does).
RateLimitWaitIgnoringHeader(attempt, retryAfter) == BackoffMs(attempt)

\* retryAfter ? parseInt(retryAfter) * 1000 : Math.pow(2, attempt) * 1000
\* (a NaN delay makes setTimeout fire at once: a wait of 0 ms)
RateLimitWait(attempt, retryAfter) ==
    IF Truthy(retryAfter)
    THEN (IF ParsesToNaN(retryAfter) THEN 0 ELSE ParseInt(retryAfter) * 1000)
    ELSE BackoffMs(attempt)

\* A success that goes on to the next iteration (not what the code does).
OnSuccessContinue(st) == [st EXCEPT !.attempt = st.attempt + 1, !.waited = <<>>]

\* if (result.ok) { ...; return; }
OnSuccess(st) == [st EXCEPT !.status = "returned", !.waited = <<>>]

\* One iteration of the loop body for the outcome the provider call had.
\* waited holds the delay this iteration slept, if it slept.
sendAttempt(st, outcome) ==
    CASE outcome.kind = "ok" -> OnSuccess(st)
      [] outcome.kind = "rate_limited" ->
            [st EXCEPT !.attempt = st.attempt + 1,
                       !.waited = <<RateLimitWait(st.attempt, outcome.retryAfter)>>]
      [] outcome.kind = "error" ->
            [st EXCEPT !.attempt = st.attempt + 1,
                       !.lastError = IF outcome.error # Absent THEN outcome.error
                                     ELSE "Unknown Slack API error",
                       !.waited = IF st.attempt < st.maxRetries - 1
                                  THEN <<BackoffMs(st.attempt)>> ELSE <<>>]
      [] outcome.kind = "throw" ->
            [st EXCEPT !.attempt = st.attempt + 1,
                       !.lastError = outcome.error,
                       !.waited = IF st.attempt < st.maxRetries - 1
                                  THEN <<BackoffMs(st.attempt)>> ELSE <<>>]

\* throw lastError || new Error("Failed to send Slack message")
sendFailed(st) ==
    [st EXCEPT !.status = "thrown", !.waited = <<>>,
               !.error = IF st.lastError # Absent THEN st.lastError
                         ELSE "Failed to send Slack message"]

(***************************************************************************)
(* Duplicate-Aware Ledger Store (the captureReminder tool of slackTools;   *)
(* the agent's captureReminder in tools.ts runs the same check on the      *)
(* enriched text against the single key reminders.md).                     *)
(***************************************************************************)
Users == {"U1", "U2"}

\* One key for every user (not what the code does).
R2KeyFlat(userId) == <<"reminders", "reminders.md">>

\* `reminders/${userId}/reminders.md`
R2Key(userId) == <<"reminders", userId, "reminders.md">>
R2Keys == {R2Key(u) : u \in Users}

\* new Date().toISOString().split("T")[0]
IsoDates == { <<"2", "0", "2", "6", "-", "1", "1", "-", "0", "6">> }

ReminderTexts ==
    { <<"c", "a", "l", "l", " ", "B", "o", "b">>,
      <<"C", "a", "l", "l", " ", "h", "o", "m", "e">>,
      <<"c", "a", "l", "l", " ", "c", "a", "l", "l">>,
      <<"h", "o", "m", "e", " ", "B", "o", "b">>,
      <<"r", "e", "c", "a", "l", "l", " ", "B", "o", "b">>,
      <<"c", "a", "l", "l", "\n", "h", "o", "m", "e">>,
      <<"B", "o", "b", "\n", "c", "a", "l", "l", " ", "h", "o", "m", "e">> }

\* content.split("\n").filter((line) => line.trim() !== "")
NonEmptyLines(content) ==
    SelectSeq(SplitLines(content, <<>>), LAMBDA line : Trim(line) # <<>>)

\* reminder.toLowerCase().split(/\s+/).filter((word) => word.length > 3)
ReminderWords(reminder) ==
    SelectSeq(SplitSpaces(ToLowerCase(reminder), <<>>), LAMBDA word : Len(word) > 3)

\* reminderWords.filter((word) => lineLower.includes(word))
MatchingWords(reminderWords, line) ==
    LET lineLower == ToLowerCase(line)
    IN  SelectSeq(reminderWords, LAMBDA word : Includes(lineLower, word))

\* The similarity test asking for three matching words (not what the code does).
IsSimilarAtThree(reminderWords, line) == Len(MatchingWords(reminderWords, line)) >= 3

\* if (matchingWords.length >= 2) similarEntries.push(line)
IsSimilar(reminderWords, line) == Len(MatchingWords(reminderWords, line)) >= 2

\* The list keeping only the first similar line (not what the code does).
SimilarEntriesFirstOnly(existingLines, reminderWords) ==
    LET all == SelectSeq(existingLines, LAMBDA line : IsSimilar(reminderWords, line))
    IN  IF Len(all) > 0 THEN <<all[1]>> ELSE <<>>

\* for (const line of existingLines) { ... similarEntries.push(line) }
SimilarEntries(existingLines, reminderWords) ==
    SelectSeq(existingLines, LAMBDA line : IsSimilar(reminderWords, line))

\* `[${today}] ${reminder}\n`
NewEntry(today, reminder) == <<"[">> \o today \o <<"]", " ">> \o reminder \o <<"\n">>

\* The tool's execute, from the object read to the object written: the
\* outcome, the similar lines listed, and the content put (if any).
captureReminder(existingObject, reminder, today) ==
    LET existingContent == IF existingObject = Missing THEN <<>> ELSE existingObject
        existingLines == NonEmptyLines(existingContent)
        similarEntries == SimilarEntries(existingLines, ReminderWords(reminder))
    IN  IF Len(similarEntries) > 0
        THEN [outcome |-> "similar", similarEntries |-> similarEntries,
              put |-> FALSE, updatedContent |-> existingContent]
        ELSE [outcome |-> "saved", similarEntries |-> <<>>,
              put |-> TRUE, updatedContent |-> existingContent \o NewEntry(today, reminder)]

\* The getReminders tool's execute (lines 203-228): what it found, the lines
\* it lists and the text it returns.
NoRemindersFound == <<"No reminders found.">>
NoRemindersMatching(search) == <<"No reminders found matching \"">> \o search \o <<"\"">>

getReminders(object, search) ==
    IF object = Missing \/ Trim(object) = <<>>
    THEN [outcome |-> "none found", lines |-> <<>>, text |-> NoRemindersFound]
    ELSE LET lines == NonEmptyLines(object)
             searchLower == ToLowerCase(search)
             filtered == SelectSeq(lines,
                            LAMBDA line : Includes(ToLowerCase(line), searchLower))
         IN  IF ~Truthy(search)
             THEN [outcome |-> "listed", lines |-> lines, text |-> Join(lines, <<"\n">>)]
             ELSE IF Len(filtered) > 0
             THEN [outcome |-> "listed", lines |-> filtered,
                   text |-> Join(filtered, <<"\n">>)]
             ELSE [outcome |-> "none matching", lines |-> <<>>,
                   text |-> NoRemindersMatching(search)]

(***************************************************************************)
(* Idempotency storage: a KV namespace whose keys expire.                  *)
(***************************************************************************)
IdempotencyTtl == 86400

\* A lookup that finds nothing (not what the code does).
KvGetNothing(store, key, clock) == Absent

\* kv.get(key): the value, or null once the key is absent or expired.
KvGet(store, key, clock) ==
    IF \E mark \in store : mark.key = key /\ clock < mark.expiresAt
    THEN "processed" ELSE Absent

\* A put that stores nothing (not what the code does).
KvPutNothing(store, key, clock, expirationTtl) == store

\* kv.put(key, "processed", { expirationTtl })
KvPut(store, key, clock, expirationTtl) ==
    {mark \in store : mark.key # key}
    \cup {[key |-> key, expiresAt |-> clock + expirationTtl * 1000]}

(***************************************************************************)
(* Event Dispatcher (handleSlackEvent).                                    *)
(***************************************************************************)
\* new Response(body, { status }): a string body without a Content-Type of
\* its own is sent as text/plain;charset=UTF-8.
Response(status, body) ==
    [threw |-> FALSE, status |-> status, body |-> body,
     contentType |-> "text/plain;charset=UTF-8"]
Thrown(error) == [threw |-> TRUE, status |-> 0, body |-> <<error>>, contentType |-> "none"]
NoResponse == [threw |-> FALSE, status |-> 0, body |-> <<>>, contentType |-> "none"]
Ok200 == Response(200, <<"OK">>)

HttpRequest(method, timestamp, signature, body) ==
    [method |-> method, timestamp |-> timestamp, signature |-> signature, body |-> body]
NoRequest == HttpRequest(Absent, Missing, Missing, Missing)

Ended(exit, response, verdict) ==
    [ended |-> TRUE, exit |-> exit, response |-> response, verdict |-> verdict,
     event |-> NoEvent]
Proceed(verdict, event) ==
    [ended |-> FALSE, exit |-> "guard", response |-> NoResponse, verdict |-> verdict,
     event |-> event]

\* The handshake answered with the plain acknowledgment (not what the code does).
ChallengeResponseOk(payload) == Response(200, <<"OK">>)

\* new Response(payload.challenge, { headers: { "Content-Type": "text/plain" } })
ChallengeResponse(payload) ==
    [Response(200, IF payload.challenge = Missing THEN <<>> ELSE payload.challenge)
        EXCEPT !.contentType = "text/plain"]

\* The same without the bot check (not what the code does).
handlePayloadNoBotCheck(verdict, payload) ==
    IF payload.type = "url_verification"
    THEN Ended("challenge", ChallengeResponse(payload), verdict)
    ELSE IF payload.type = "event_callback" /\ payload.event # NoEvent
    THEN Proceed(verdict, payload.event)
    ELSE Ended("unhandled", Ok200, verdict)

\* Lines 400-419, on the parsed payload of a verified request.
handlePayload(verdict, payload) ==
    IF payload.type = "url_verification"
    THEN Ended("challenge", ChallengeResponse(payload), verdict)
    ELSE IF payload.type = "event_callback" /\ payload.event # NoEvent
    THEN IF payload.event.bot_id # Absent
         THEN Ended("bot", Ok200, verdict)
         ELSE Proceed(verdict, payload.event)
    ELSE Ended("unhandled", Ok200, verdict)

\* The same without the test of the verdict (not what the code does).
handleVerifiedUnchecked(verdict, parsed) ==
    IF parsed.threw
    THEN Ended("json", Response(400, <<"Invalid JSON">>), verdict)
    ELSE IF parsed.isNull
    THEN Ended("typeerror", Thrown("TypeError"), verdict)
    ELSE handlePayload(verdict, parsed.payload)

\* Lines 387-398, on the verifier's verdict and the result of JSON.parse;
\* payload.type on JavaScript's null throws a TypeError.
handleVerified(verdict, parsed) ==
    IF ~verdict.result
    THEN Ended("signature", Response(401, <<"Invalid signature">>), verdict)
    ELSE IF parsed.threw
    THEN Ended("json", Response(400, <<"Invalid JSON">>), verdict)
    ELSE IF parsed.isNull
    THEN Ended("typeerror", Thrown("TypeError"), verdict)
    ELSE handlePayload(verdict, parsed.payload)

\* handleSlackEvent from its entry to the idempotency guard: the response it
\* returns (or the error it throws) when it ends there, the event otherwise.
handleSlackEventGate(request, environment, clock) ==
    IF request.method # "POST"
    THEN Ended("method", Response(405, <<"Method not allowed">>), NoVerdict)
    ELSE IF environment.SLACK_SIGNING_SECRET = Absent \/ environment.SLACK_BOT_TOKEN = Absent
    THEN Ended("config", Response(500, <<"Server configuration error">>), NoVerdict)
    ELSE IF ~Truthy(request.timestamp) \/ ~Truthy(request.signature)
    THEN Ended("headers", Response(400, <<"Missing Slack headers">>), NoVerdict)
    ELSE handleVerified(verifySlackRequest(environment.SLACK_SIGNING_SECRET,
                                           request.timestamp, request.body,
                                           request.signature, clock),
                        JSONParse(request.body))

\* A synthesized id that leaves the time of receipt out (not what the code
\* does).
EventIdWithoutClock(event, clock) ==
    IF event.ts # Absent THEN <<event.ts>>
    ELSE <<event.type, "-", event.user, "-">>

\* event.ts || `${event.type}-${event.user}-${Date.now()}`
EventId(event, clock) ==
    IF event.ts # Absent THEN <<event.ts>>
    ELSE <<event.type, "-", event.user, "-", FormatInt(clock)>>

\* `slack-event:${eventId}`
EventKey(event, clock) == <<"slack-event:">> \o EventId(event, clock)

IsAlnum(c) == IsDigit(c) \/ IsUpper(c) \/ IsLower(c)

RECURSIVE AlnumRun(_, _)
AlnumRun(s, i) == IF i <= Len(s) /\ IsAlnum(s[i]) THEN 1 + AlnumRun(s, i + 1) ELSE 0

\* The length of the match of /<@[A-Z0-9]+>/i at the start of s (0: no match).
MentionAt(s) ==
    IF Len(s) >= 4 /\ s[1] = "<" /\ s[2] = "@"
    THEN LET run == AlnumRun(s, 3)
         IN  IF run >= 1 /\ run + 3 <= Len(s) /\ s[run + 3] = ">" THEN run + 3 ELSE 0
    ELSE 0

\* text.replace(/<@[A-Z0-9]+>/gi, "")
RECURSIVE StripMentions(_)
StripMentions(s) ==
    IF Len(s) = 0 THEN <<>>
    ELSE IF MentionAt(s) > 0 THEN StripMentions(SubSeq(s, MentionAt(s) + 1, Len(s)))
    ELSE <<s[1]>> \o StripMentions(Tail(s))

\* The extraction replying to a mention in the thread the event names (not
\* what the code does).
ExtractKeepingThread(event) ==
    IF event.type = "message" /\ event.channel_type = "im"
    THEN [userText |-> event.text, channelId |-> event.channel, threadTs |-> event.thread_ts]
    ELSE IF event.type = "app_mention"
    THEN [userText |-> IF event.text = Missing THEN Missing
                       ELSE Trim(StripMentions(event.text)),
          channelId |-> event.channel, threadTs |-> event.thread_ts]
    ELSE [userText |-> Missing, channelId |-> Absent, threadTs |-> Absent]

\* (userText, channelId, threadTs) by event type
Extract(event) ==
    IF event.type = "message" /\ event.channel_type = "im"
    THEN [userText |-> event.text, channelId |-> event.channel, threadTs |-> event.thread_ts]
    ELSE IF event.type = "app_mention"
    THEN [userText |-> IF event.text = Missing THEN Missing
                       ELSE Trim(StripMentions(event.text)),
          channelId |-> event.channel, threadTs |-> event.ts]
    ELSE [userText |-> Missing, channelId |-> Absent, threadTs |-> Absent]

\* if (userText && channelId && event.user)
HasMessage(event) ==
    LET x == Extract(event)
    IN  Truthy(x.userText) /\ x.channelId # Absent /\ event.user # Absent

\* The response after dispatch, were the handler to await the background
\* task first (not what the code does).
DispatchResponseAwaiting == NoResponse

\* return new Response("OK", { status: 200 }) right after the task is started
DispatchResponse == Ok200



(***************************************************************************)
(* generateSlackResponse (lines 162-346): what the orchestrator returns    *)
(* for a credential and for what generateText did.  A fixed text of the    *)
(* code is kept as one token of a character sequence.                      *)
(***************************************************************************)
MaxToolResults == 2

\* JavaScript values a tool result can carry, with what String(v) makes of
\* them.
JsValue(type, chars) == [t |-> type, s |-> chars]
Undefined == JsValue("undefined", <<>>)
JsNull == JsValue("null", <<>>)
JsObject == JsValue("object", <<>>)
JsString(chars) == JsValue("string", chars)
JsNumber(digits) == JsValue("number", digits)

String(v) ==
    CASE v.t = "string" -> v.s
      [] v.t = "number" -> v.s
      [] v.t = "null" -> <<"n", "u", "l", "l">>
      [] v.t = "undefined" -> <<"u", "n", "d", "e", "f", "i", "n", "e", "d">>
      [] OTHER -> <<"[", "o", "b", "j", "e", "c", "t", " ", "O", "b", "j", "e", "c", "t", "]">>

\* if (v): undefined, null, "" and 0 are falsy.
TruthyValue(v) ==
    CASE v.t = "string" -> Len(v.s) > 0
      [] v.t = "number" -> v.s # <<"0">>
      [] v.t = "object" -> TRUE
      [] OTHER -> FALSE

NotConfiguredText ==
    <<"Sorry, the AI service is not configured. Please check server settings.">>
NoTextResponse ==
    <<"I processed your request but have no text response. Please try rephrasing your request.">>
ErrorPrefix == <<"Sorry, I encountered an error: ">>
TypeErrorMessage == <<"TypeError">>

\* An element of result.toolResults: an object with some of the fields
\* value, result and output, a bare string, or null.
ToolResult(shape, raw, value, result, output) ==
    [shape |-> shape, raw |-> raw, value |-> value, result |-> result, output |-> output]
ObjectResult(value, result, output) == ToolResult("object", <<>>, value, result, output)
StringResult(raw) == ToolResult("string", raw, Undefined, Undefined, Undefined)
NullResult == ToolResult("null", <<>>, Undefined, Undefined, Undefined)

\* What the callback of map returns: a string, or null.
Mapped(chars) == [isNull |-> FALSE, s |-> chars]
MappedNull == [isNull |-> TRUE, s |-> <<>>]

\* Lines 319-330.  Reading a property of null throws; a bare string has
\* none of the three properties.
toolResultValue(tr) ==
    IF tr.value.t # "undefined" THEN Mapped(String(tr.value))
    ELSE IF tr.result.t # "undefined" THEN Mapped(String(tr.result))
    ELSE IF tr.output.t # "undefined" THEN Mapped(String(tr.output))
    ELSE IF tr.shape = "string" THEN Mapped(tr.raw)
    ELSE MappedNull

\* A filter that keeps every string (not what the code does).
KeptByFilterAnyString(val) == ~val.isNull

\* Line 331: val !== null && val.trim() !== "".
KeptByFilter(val) == ~val.isNull /\ Trim(val.s) # <<>>

\* Lines 318-332: map, filter, join("\n").
toolResultValues(toolResults) ==
    LET mapped == [k \in 1..Len(toolResults) |-> toolResultValue(toolResults[k])]
        kept == SelectSeq(mapped, KeptByFilter)
    IN  Join([k \in 1..Len(kept) |-> kept[k].s], <<"\n">>)

\* What a run of lines 303-341 ends with: a returned string or a TypeError.
Returns(chars) == [threw |-> FALSE, value |-> chars]
Throws(message) == [threw |-> TRUE, value |-> message]

\* Lines 303-341 on the result of generateText.
extractReply(result) ==
    IF TruthyValue(result.text) /\ result.text.t # "string"
    THEN Throws(TypeErrorMessage)
    ELSE IF TruthyValue(result.text) /\ Trim(result.text.s) # <<>>
    THEN Returns(Trim(result.text.s))
    ELSE IF result.toolCalls.defined /\ result.toolCalls.length > 0
            /\ result.toolResults.isArray /\ Len(result.toolResults.items) > 0
    THEN IF \E k \in 1..Len(result.toolResults.items) :
                result.toolResults.items[k].shape = "null"
         THEN Throws(TypeErrorMessage)
         ELSE IF toolResultValues(result.toolResults.items) # <<>>
         THEN Returns(toolResultValues(result.toolResults.items))
         ELSE Returns(NoTextResponse)
    ELSE Returns(NoTextResponse)

\* Lines 179-345.  engine is what generateText does when it is called: it
\* resolves with a result or rejects with an error.
generateSlackResponse(apiKey, engine) ==
    IF ~Truthy(apiKey)
    THEN [returned |-> NotConfiguredText, engineCalls |-> 0, raised |-> FALSE]
    ELSE IF engine.kind = "rejected"
    THEN [returned |-> ErrorPrefix \o engine.message, engineCalls |-> 1, raised |-> FALSE]
    ELSE IF extractReply(engine.result).threw
    THEN [returned |-> ErrorPrefix \o extractReply(engine.result).value,
          engineCalls |-> 1, raised |-> FALSE]
    ELSE [returned |-> extractReply(engine.result).value, engineCalls |-> 1,
          raised |-> FALSE]

(***************************************************************************)
(* Idle values: what a variable holds in a specification that does not     *)
(* exercise its component.                                                 *)
(***************************************************************************)
IdleVerifier ==
    [phase |-> "idle", signingSecret |-> Absent, timestamp |-> Missing, body |-> Missing,
     signature |-> Missing, verdict |-> NoVerdict, altered |-> "none",
     original |-> [body |-> Missing, signature |-> Missing, verdict |-> NoVerdict]]
IdleDelivery == [call |-> NewSend(0), trace |-> <<>>]
EmptyBucket == [key \in R2Keys |-> Missing]
IdleEnv == [SLACK_SIGNING_SECRET |-> Absent, SLACK_BOT_TOKEN |-> Absent]
IdleHandler ==
    [pc |-> "idle", request |-> NoRequest, exit |-> "none", verdict |-> NoVerdict,
     response |-> NoResponse, event |-> NoEvent, eventKey |-> <<>>,
     receivedAt |-> 0, lookupAt |-> 0, markedAt |-> 0,
     kvReads |-> 0, kvWrites |-> 0, startedTask |-> FALSE, after |-> {}]
IdleHandlers == [i \in 1..MaxRequests |-> IdleHandler]
IdleTask ==
    [pc |-> "none", userText |-> Missing, channelId |-> Absent, threadTs |-> Absent,
     userId |-> Absent, send |-> NewSend(0), calls |-> 0, result |-> "none",
     invocations |-> 0, sent |-> <<>>]
IdleTasks == [i \in 1..MaxRequests |-> IdleTask]
NoResult ==
    [text |-> Undefined, toolCalls |-> [defined |-> FALSE, length |-> 0],
     toolResults |-> [isArray |-> FALSE, items |-> <<>>]]
NoEngineCall == [kind |-> "none", result |-> NoResult, message |-> <<>>]
IdleGen ==
    [pc |-> "idle", apiKey |-> Missing, engine |-> NoEngineCall, returned |-> Missing,
     engineCalls |-> 0, raised |-> FALSE]

(***************************************************************************)
(* The verifier as a state machine: one call on inputs drawn from the      *)
(* bounded sets, then a second call on the same inputs with one character  *)
(* of the body or of the signature changed, or the signature resized.      *)
(***************************************************************************)
VerifierClock == {1000000, 1000999, 1300999, 1301000}
SignatureAlterChars == {"0", "f"}

VerifyInit ==
    /\ nowMs \in VerifierClock
    /\ \E signingSecret \in Secrets, signer \in Secrets,
          timestamp \in TimestampHeaders, body \in VerifierBodies :
         vcall = [IdleVerifier EXCEPT
                    !.phase = "input", !.signingSecret = signingSecret,
                    !.timestamp = timestamp, !.body = body,
                    !.signature = ComputedSignature(signer, timestamp, body)]
    /\ delivery = IdleDelivery
    /\ r2 = EmptyBucket
    /\ history = <<>>
    /\ env = IdleEnv /\ kv = {} /\ handlers = IdleHandlers /\ tasks = IdleTasks
    /\ gen = IdleGen

Reverified(body, signature, what) ==
    [vcall EXCEPT
       !.phase = "altered", !.altered = what, !.body = body, !.signature = signature,
       !.original = [body |-> vcall.body, signature |-> vcall.signature,
                     verdict |-> vcall.verdict],
       !.verdict = verifySlackRequest(vcall.signingSecret, vcall.timestamp, body,
                                      signature, nowMs)]

VerifyRequest ==
    /\ vcall.phase = "input"
    /\ vcall' = [vcall EXCEPT
                   !.phase = "verified",
                   !.verdict = verifySlackRequest(vcall.signingSecret, vcall.timestamp,
                                                  vcall.body, vcall.signature, nowMs)]
    /\ UNCHANGED <<nowMs, delivery, r2, history, env, kv, handlers, tasks, gen>>

AlterBody ==
    /\ vcall.phase = "verified"
    /\ \E i \in 1..Len(vcall.body) : \E c \in BodyChars \ {vcall.body[i]} :
         vcall' = Reverified([vcall.body EXCEPT ![i] = c], vcall.signature, "body")
    /\ UNCHANGED <<nowMs, delivery, r2, history, env, kv, handlers, tasks, gen>>

AlterSignature ==
    /\ vcall.phase = "verified"
    /\ \E i \in 1..Len(vcall.signature) : \E c \in SignatureAlterChars \ {vcall.signature[i]} :
         vcall' = Reverified(vcall.body, [vcall.signature EXCEPT ![i] = c], "signature")
    /\ UNCHANGED <<nowMs, delivery, r2, history, env, kv, handlers, tasks, gen>>

ResizeSignature ==
    /\ vcall.phase = "verified"
    /\ \E resized \in {SubSeq(vcall.signature, 1, Len(vcall.signature) - 1),
                       Append(vcall.signature, "0")} :
         vcall' = Reverified(vcall.body, resized, "length")
    /\ UNCHANGED <<nowMs, delivery, r2, history, env, kv, handlers, tasks, gen>>

VerifyNext == VerifyRequest \/ AlterBody \/ AlterSignature \/ ResizeSignature

SpecVerify == VerifyInit /\ [][VerifyNext]_vars

(***************************************************************************)
(* sendSlackMessage as a state machine: one provider call per step, the    *)
(* outcome of each call chosen freely; trace records the calls and waits.  *)
(***************************************************************************)
TraceCall(outcome) == [op |-> "call", outcome |-> outcome, ms |-> 0]
TraceWait(ms) == [op |-> "wait", outcome |-> Outcome("none", Absent, Missing), ms |-> ms]

SendInit ==
    /\ nowMs = 0
    /\ vcall = IdleVerifier
    /\ \E maxRetries \in 1..MaxRetriesBound :
         delivery = [call |-> NewSend(maxRetries), trace |-> <<>>]
    /\ r2 = EmptyBucket
    /\ history = <<>>
    /\ env = IdleEnv /\ kv = {} /\ handlers = IdleHandlers /\ tasks = IdleTasks
    /\ gen = IdleGen

SendCall(kind) ==
    /\ delivery.call.status = "running"
    /\ LoopContinues(delivery.call)
    /\ \E outcome \in ProviderOutcomes :
         /\ outcome.kind = kind
         /\ LET after == sendAttempt(delivery.call, outcome)
            IN  delivery' =
                  [call |-> after,
                   trace |-> Append(delivery.trace, TraceCall(outcome))
                             \o [i \in 1..Len(after.waited) |-> TraceWait(after.waited[i])]]
    /\ UNCHANGED <<nowMs, vcall, r2, history, env, kv, handlers, tasks, gen>>

SendOk == SendCall("ok")
SendRateLimited == SendCall("rate_limited")
SendApiError == SendCall("error")
SendTransportFailure == SendCall("throw")

SendGiveUp ==
    /\ delivery.call.status = "running"
    /\ ~LoopContinues(delivery.call)
    /\ delivery' = [delivery EXCEPT !.call = sendFailed(delivery.call)]
    /\ UNCHANGED <<nowMs, vcall, r2, history, env, kv, handlers, tasks, gen>>

SendNext == SendOk \/ SendRateLimited \/ SendApiError \/ SendTransportFailure \/ SendGiveUp

SpecSend == SendInit /\ [][SendNext]_vars

\* Every awaited provider call and timer settles, so the loop keeps stepping.
SpecSendFair == SpecSend /\ WF_vars(SendNext)

(***************************************************************************)
(* The ledger as a state machine: captureReminder calls, one after the     *)
(* other, by any user with any text.                                       *)
(***************************************************************************)
LedgerInit ==
    /\ nowMs = 0
    /\ vcall = IdleVerifier
    /\ delivery = IdleDelivery
    /\ r2 = EmptyBucket
    /\ history = <<>>
    /\ env = IdleEnv /\ kv = {} /\ handlers = IdleHandlers /\ tasks = IdleTasks
    /\ gen = IdleGen

CaptureReminder ==
    /\ Len(history) < MaxCaptures
    /\ \E userId \in Users, reminder \in ReminderTexts, today \in IsoDates :
         LET result == captureReminder(r2[R2Key(userId)], reminder, today)
         IN  /\ r2' = IF result.put
                      THEN [r2 EXCEPT ![R2Key(userId)] = result.updatedContent]
                      ELSE r2
             /\ history' = Append(history,
                               [userId |-> userId, reminder |-> reminder, today |-> today,
                                read |-> r2[R2Key(userId)],
                                outcome |-> result.outcome,
                                similarEntries |-> result.similarEntries,
                                put |-> result.put])
    /\ UNCHANGED <<nowMs, vcall, delivery, env, kv, handlers, tasks, gen>>

LedgerNext == CaptureReminder

SpecLedger == LedgerInit /\ [][LedgerNext]_vars

(***************************************************************************)
(* Concurrent captures: captureReminder awaits the R2 read (line 240),     *)
(* then, without reading again, awaits the R2 write of the content it read *)
(* plus its entry (lines 274-281); other calls can run in between.         *)
(* history holds the calls in the order of their reads.                    *)
(***************************************************************************)
\* The content extended were the blob read again at the write (not what the
\* code does).
ContentToExtendFresh(read, current) == current

\* existingContent, from the read of line 240, is what line 274 extends.
ContentToExtend(read, current) == read

RaceRead ==
    /\ Len(history) < MaxWriters
    /\ \E userId \in Users, reminder \in ReminderTexts, today \in IsoDates :
         history' = Append(history,
                       [pc |-> "read", userId |-> userId, reminder |-> reminder,
                        today |-> today, read |-> r2[R2Key(userId)],
                        outcome |-> "pending", similarEntries |-> <<>>, put |-> FALSE])
    /\ UNCHANGED <<nowMs, vcall, delivery, r2, env, kv, handlers, tasks, gen>>

RaceWrite ==
    \E k \in 1..Len(history) :
        /\ history[k].pc = "read"
        /\ LET call == history[k]
               result == captureReminder(
                             ContentToExtend(call.read, r2[R2Key(call.userId)]),
                             call.reminder, call.today)
           IN  /\ r2' = IF result.put
                        THEN [r2 EXCEPT ![R2Key(call.userId)] = result.updatedContent]
                        ELSE r2
               /\ history' = [history EXCEPT ![k] =
                                 [call EXCEPT !.pc = "done", !.outcome = result.outcome,
                                              !.similarEntries = result.similarEntries,
                                              !.put = result.put]]
        /\ UNCHANGED <<nowMs, vcall, delivery, env, kv, handlers, tasks, gen>>

RaceNext == RaceRead \/ RaceWrite

SpecLedgerRace == LedgerInit /\ [][RaceNext]_vars

(***************************************************************************)
(* The tools of several users at work on the bucket: captures, each a read *)
(* and a later write, and getReminders calls, in any order; the            *)
(* idempotency namespace holds a mark throughout.                          *)
(***************************************************************************)
MaxToolCalls == 3

SearchTerms == {Missing, <<"C", "A", "L", "L">>, <<"h", "o", "m", "e">>}

ToolTexts ==
    { <<"c", "a", "l", "l", " ", "B", "o", "b">>,
      <<"C", "a", "l", "l", " ", "h", "o", "m", "e">>,
      <<"c", "a", "l", "l", "\n", "h", "o", "m", "e">> }

StandingMark == [key |-> <<"slack-event:", "1700.01">>, expiresAt |-> 86400000]

IsReadCall(call) == call.outcome \in {"none found", "listed", "none matching"}

ToolsInit ==
    /\ nowMs = 0
    /\ vcall = IdleVerifier
    /\ delivery = IdleDelivery
    /\ r2 = EmptyBucket
    /\ history = <<>>
    /\ env = IdleEnv /\ kv = {StandingMark} /\ handlers = IdleHandlers /\ tasks = IdleTasks
    /\ gen = IdleGen

\* Lines 240-241 of a captureReminder call: the blob is read.
ToolCaptureRead ==
    /\ Len(history) < MaxToolCalls
    /\ Cardinality({k \in 1..Len(history) : ~IsReadCall(history[k])}) < MaxWriters
    /\ \E userId \in Users, reminder \in ToolTexts, today \in IsoDates :
         history' = Append(history,
                       [pc |-> "read", userId |-> userId, reminder |-> reminder,
                        today |-> today, read |-> r2[R2Key(userId)],
                        outcome |-> "pending", similarEntries |-> <<>>, put |-> FALSE])
    /\ UNCHANGED <<nowMs, vcall, delivery, r2, env, kv, handlers, tasks, gen>>

GetReminders ==
    /\ Len(history) < MaxToolCalls
    /\ \E userId \in Users, search \in SearchTerms :
         LET result == getReminders(r2[R2Key(userId)], search)
         IN  history' = Append(history,
                           [pc |-> "done", userId |-> userId, reminder |-> <<>>,
                            today |-> <<>>, read |-> r2[R2Key(userId)],
                            outcome |-> result.outcome, similarEntries |-> <<>>,
                            put |-> FALSE, search |-> search, lines |-> result.lines,
                            text |-> result.text])
    /\ UNCHANGED <<nowMs, vcall, delivery, r2, env, kv, handlers, tasks, gen>>

ToolsNext == ToolCaptureRead \/ RaceWrite \/ GetReminders

SpecTools == ToolsInit /\ [][ToolsNext]_vars

(***************************************************************************)
(* The dispatcher as a state machine.  An invocation occupies a slot.  The *)
(* code between two awaits on the stores runs as one step: the checks up   *)
(* to the guard touch nothing shared, so Receive is atomic; KV get and KV  *)
(* put are separate steps, so two invocations can interleave there.  The   *)
(* background task of a slot advances one orchestration or one provider    *)
(* call at a time, independently of every handler.                         *)
(***************************************************************************)
BotToken == "xoxb"
WorkingEnv == [SLACK_SIGNING_SECRET |-> SlackSecret, SLACK_BOT_TOKEN |-> BotToken]
Environments ==
    [SLACK_SIGNING_SECRET : {Absent, SlackSecret}, SLACK_BOT_TOKEN : {Absent, BotToken}]

Slots == 1..MaxRequests

\* The requests Slack itself sends at the given time: a POST stamped with the
\* current second and signed with the shared secret.
SlackBodies == {JsonText(k) : k \in {2, 6, 7, 8}}
SlackRequestsOf(bodies, clock) ==
    LET timestamp == FormatInt(clock \div 1000)
    IN  {HttpRequest("POST", timestamp, ComputedSignature(SlackSecret, timestamp, body), body) :
            body \in bodies}
SlackRequests(clock) == SlackRequestsOf(SlackBodies, clock)

\* Every request the model can form: any method, any timestamp header or none,
\* no signature, a signature by either key, any body.
GateTimestamps ==
    { Missing, <<>>, <<"1", "0", "0", "0">>, <<"1", "3", "0", "0">>, <<"1", "3", "0", "1">>,
      <<"7", "0", "0">>, <<"6", "9", "9">>, <<"x">> }
SignaturesFor(timestamp, body) ==
    {Missing} \cup
    (IF timestamp \in TimestampHeaders
     THEN {ComputedSignature(secret, timestamp, body) : secret \in Secrets}
     ELSE {<<"v", "0", "=">>})
AnyRequests ==
    UNION { UNION { {HttpRequest(method, timestamp, signature, body) :
                        method \in {"POST", "GET"},
                        signature \in SignaturesFor(timestamp, body)} :
                    timestamp \in GateTimestamps } :
            body \in DispatchBodies }

SpecClock == {1000000, 87399000, 87400000}
GateClock == {1000000, 1300999, 1301000}

DispatchInit ==
    /\ nowMs = 1000000
    /\ env = WorkingEnv
    /\ kv = {}
    /\ handlers = IdleHandlers
    /\ tasks = IdleTasks
    /\ gen = IdleGen
    /\ vcall = IdleVerifier
    /\ delivery = IdleDelivery
    /\ r2 = EmptyBucket
    /\ history = <<>>

GateInit ==
    /\ nowMs \in GateClock
    /\ env \in Environments
    /\ kv = {}
    /\ handlers = IdleHandlers
    /\ tasks = IdleTasks
    /\ gen = IdleGen
    /\ vcall = IdleVerifier
    /\ delivery = IdleDelivery
    /\ r2 = EmptyBucket
    /\ history = <<>>

Done(i) == handlers[i].pc = "done"

\* The slot of an invocation that has passed lines 357-419 with result gate.
Arrived(request, gate, clock, doneSlots) ==
    [IdleHandler EXCEPT
       !.pc = IF gate.ended THEN "done" ELSE "lookup",
       !.request = request, !.exit = gate.exit, !.verdict = gate.verdict,
       !.response = gate.response, !.event = gate.event,
       !.eventKey = IF gate.ended THEN <<>> ELSE EventKey(gate.event, clock),
       !.receivedAt = clock,
       !.after = doneSlots]

\* Lines 357-419: the request is read, checked and parsed; it ends here or
\* goes on to the idempotency guard with its key.
Receive(i, request) ==
    /\ handlers[i].pc = "idle"
    /\ handlers' = [handlers EXCEPT ![i] =
            Arrived(request, handleSlackEventGate(request, env, nowMs), nowMs,
                    {j \in Slots : Done(j)})]
    /\ UNCHANGED <<nowMs, env, kv, tasks, vcall, delivery, r2, history, gen>>

ReceiveFromSlack ==
    \E i \in Slots, request \in SlackRequests(nowMs) :
        /\ \A j \in 1..(i - 1) : handlers[j].pc # "idle"
        /\ Receive(i, request)

ReceiveAny == \E request \in AnyRequests : Receive(1, request)

\* Line 423-428: const processedEvent = await idempotencyKV.get(eventKey)
Lookup ==
    \E i \in Slots :
        /\ handlers[i].pc = "lookup"
        /\ LET processedEvent == KvGet(kv, handlers[i].eventKey, nowMs)
           IN  handlers' =
                 [handlers EXCEPT ![i] =
                    IF processedEvent # Absent
                    THEN [@ EXCEPT !.pc = "done", !.exit = "duplicate", !.response = Ok200,
                                   !.kvReads = @ + 1, !.lookupAt = nowMs]
                    ELSE [@ EXCEPT !.pc = "mark", !.kvReads = @ + 1, !.lookupAt = nowMs]]
        /\ UNCHANGED <<nowMs, env, kv, tasks, vcall, delivery, r2, history, gen>>

NewTask(event) ==
    LET x == Extract(event)
    IN  [IdleTask EXCEPT !.pc = "generate", !.userText = x.userText,
                         !.channelId = x.channelId, !.threadTs = x.threadTs,
                         !.userId = event.user]

\* Lines 431-485: the mark is written, the message extracted, the background
\* task started when there is a message, and the acknowledgment returned.
MarkAndDispatch ==
    \E i \in Slots :
        /\ handlers[i].pc = "mark"
        /\ kv' = KvPut(kv, handlers[i].eventKey, nowMs, IdempotencyTtl)
        /\ LET start == HasMessage(handlers[i].event)
           IN  /\ handlers' =
                     [handlers EXCEPT ![i] =
                        [@ EXCEPT !.pc = "done",
                                  !.exit = IF start THEN "dispatched" ELSE "no-message",
                                  !.response = IF start THEN DispatchResponse ELSE Ok200,
                                  !.kvWrites = @ + 1, !.markedAt = nowMs,
                                  !.startedTask = start]]
               /\ tasks' = IF start THEN [tasks EXCEPT ![i] = NewTask(handlers[i].event)]
                           ELSE tasks
        /\ UNCHANGED <<nowMs, env, vcall, delivery, r2, history, gen>>

\* "Sorry, I encountered an error processing your message."
FallbackText == "Sorry, I encountered an error processing your message."

\* The chat.postMessage call a send of the task makes: the reply of the
\* orchestrator or the fixed apology, to the task's channel and thread.
PostedMessage(task, outcome) ==
    [send |-> task.pc, channel |-> task.channelId, thread_ts |-> task.threadTs,
     text |-> IF task.pc = "primary" THEN "response" ELSE FallbackText,
     ok |-> outcome.kind = "ok"]

\* A catch that sends the apology again whenever a send throws (not what
\* the code does).
AfterSendThrownRetrying(task) ==
    [task EXCEPT !.pc = "fallback", !.send = NewSend(DefaultMaxRetries),
                 !.invocations = IF @ < 3 THEN @ + 1 ELSE @]

\* Lines 463-474: the primary send threw, so the fallback send starts; the
\* fallback send threw, so the failure is logged.
AfterSendThrown(task) ==
    IF task.pc = "primary"
    THEN [task EXCEPT !.pc = "fallback", !.send = NewSend(DefaultMaxRetries),
                      !.invocations = @ + 1]
    ELSE [task EXCEPT !.pc = "done", !.send = sendFailed(task.send),
                      !.result = "logged"]

\* Line 461: generateSlackResponse resolves with a string (it catches its own
\* errors); the primary send starts.
TaskGenerate ==
    \E i \in Slots :
        /\ tasks[i].pc = "generate"
        /\ tasks' = [tasks EXCEPT ![i] =
                        [@ EXCEPT !.pc = "primary", !.send = NewSend(DefaultMaxRetries),
                                  !.invocations = @ + 1]]
        /\ UNCHANGED <<nowMs, env, kv, handlers, vcall, delivery, r2, history, gen>>

\* Lines 462 and 466: one provider call of the primary or of the fallback send.
TaskSend ==
    \E i \in Slots, outcome \in ProviderOutcomes :
        /\ tasks[i].pc \in {"primary", "fallback"}
        /\ LoopContinues(tasks[i].send)
        /\ LET after == sendAttempt(tasks[i].send, outcome)
           IN  tasks' = [tasks EXCEPT ![i] =
                   IF after.status = "returned"
                   THEN [@ EXCEPT !.pc = "done", !.send = after, !.calls = @ + 1,
                                  !.sent = Append(@, PostedMessage(tasks[i], outcome)),
                                  !.result = IF tasks[i].pc = "primary" THEN "delivered"
                                             ELSE "apology delivered"]
                   ELSE [@ EXCEPT !.send = after, !.calls = @ + 1,
                                  !.sent = Append(@, PostedMessage(tasks[i], outcome))]]
        /\ UNCHANGED <<nowMs, env, kv, handlers, vcall, delivery, r2, history, gen>>

\* Lines 463-474: the primary send threw, so the fallback send starts; the
\* fallback send threw, so the failure is logged.
TaskSendFailed ==
    \E i \in Slots :
        /\ tasks[i].pc \in {"primary", "fallback"}
        /\ ~LoopContinues(tasks[i].send)
        /\ tasks' = [tasks EXCEPT ![i] = AfterSendThrown(tasks[i])]
        /\ UNCHANGED <<nowMs, env, kv, handlers, vcall, delivery, r2, history, gen>>

\* Time passes; expired keys leave the KV namespace.
Tick ==
    /\ \E later \in SpecClock :
         /\ later > nowMs
         /\ nowMs' = later
         /\ kv' = {mark \in kv : later < mark.expiresAt}
    /\ UNCHANGED <<env, handlers, tasks, vcall, delivery, r2, history, gen>>

\* Several deliveries by Slack, interleaved at the guard, while time passes.
\* A background task shares no state with the handlers or with the KV
\* namespace, so its steps are left to SpecGate, which follows one invocation
\* and its task to the end.
Next ==
    \/ ReceiveFromSlack
    \/ Lookup
    \/ MarkAndDispatch
    \/ Tick

Spec == DispatchInit /\ [][Next]_vars

\* Deliveries of an event that carries a ts and of one that carries none,
\* one millisecond and three hundred seconds apart.
KeyClock == {1000000, 1000001, 1300000}
KeyBodies == {JsonText(k) : k \in {2, 7}}

ReceiveAtMs ==
    \E i \in Slots, request \in SlackRequestsOf(KeyBodies, nowMs) :
        /\ \A j \in 1..(i - 1) : handlers[j].pc # "idle"
        /\ Receive(i, request)

\* Time passes by a millisecond or by minutes.
TickMs ==
    /\ \E later \in KeyClock :
         /\ later > nowMs
         /\ nowMs' = later
         /\ kv' = {mark \in kv : later < mark.expiresAt}
    /\ UNCHANGED <<env, handlers, tasks, vcall, delivery, r2, history, gen>>

KeyNext == ReceiveAtMs \/ Lookup \/ MarkAndDispatch \/ TickMs

SpecKeys == DispatchInit /\ [][KeyNext]_vars

\* One invocation on any request under any configuration, and its task.
GateNext ==
    \/ ReceiveAny
    \/ Lookup
    \/ MarkAndDispatch
    \/ TaskGenerate
    \/ TaskSend
    \/ TaskSendFailed

SpecGate == GateInit /\ [][GateNext]_vars

\* ctx.waitUntil(processPromise) keeps the background task running, and every
\* call it awaits settles.
SpecGateFair == SpecGate /\ WF_vars(TaskGenerate \/ TaskSend \/ TaskSendFailed)

(***************************************************************************)
(* The orchestrator as a state machine: one generateSlackResponse call for *)
(* a credential and an engine behaviour drawn from the bounded sets.       *)
(***************************************************************************)
ApiKeys == {Missing, <<>>, <<"k">>}

EngineTexts ==
    {Undefined, JsString(<<>>), JsString(<<" ">>), JsString(<<"h", "i">>),
     JsString(<<" ", "h", "i", "\n">>), JsNumber(<<"5">>)}

ToolCallLists ==
    {[defined |-> FALSE, length |-> 0], [defined |-> TRUE, length |-> 0],
     [defined |-> TRUE, length |-> 1]}

ToolResultItems ==
    {ObjectResult(JsString(<<"a">>), Undefined, Undefined),
     ObjectResult(JsString(<<" ">>), Undefined, Undefined),
     ObjectResult(JsNull, JsString(<<"b">>), Undefined),
     ObjectResult(JsObject, Undefined, Undefined),
     ObjectResult(Undefined, JsString(<<"b">>), JsString(<<"c">>)),
     ObjectResult(Undefined, Undefined, JsNumber(<<"7">>)),
     ObjectResult(Undefined, Undefined, Undefined),
     StringResult(<<"r">>), StringResult(<<>>), NullResult}

RECURSIVE SeqsUpTo(_, _)
SeqsUpTo(S, n) ==
    IF n = 0 THEN {<<>>}
    ELSE SeqsUpTo(S, n - 1)
         \cup {Append(q, x) : q \in {r \in SeqsUpTo(S, n - 1) : Len(r) = n - 1}, x \in S}

ToolResultLists ==
    {[isArray |-> FALSE, items |-> <<>>]}
    \cup {[isArray |-> TRUE, items |-> q] : q \in SeqsUpTo(ToolResultItems, MaxToolResults)}

EngineResults ==
    [text : EngineTexts, toolCalls : ToolCallLists, toolResults : ToolResultLists]

EngineBehaviours ==
    {[kind |-> "resolved", result |-> r, message |-> <<>>] : r \in EngineResults}
    \cup {[kind |-> "rejected", result |-> NoResult, message |-> m] :
            m \in {<<>>, <<"q", "u", "o", "t", "a">>}}

ReplyInit ==
    /\ nowMs = 1000000 /\ vcall = IdleVerifier /\ delivery = IdleDelivery
    /\ r2 = EmptyBucket /\ history = <<>>
    /\ env = IdleEnv /\ kv = {} /\ handlers = IdleHandlers /\ tasks = IdleTasks
    /\ \E k \in ApiKeys, e \in EngineBehaviours :
          gen = [IdleGen EXCEPT !.pc = "called", !.apiKey = k, !.engine = e]

\* The call runs to its return statement.
GenerateSlackResponse ==
    /\ gen.pc = "called"
    /\ LET out == generateSlackResponse(gen.apiKey, gen.engine)
       IN  gen' = [gen EXCEPT !.pc = "returned", !.returned = out.returned,
                              !.engineCalls = out.engineCalls, !.raised = out.raised]
    /\ UNCHANGED <<nowMs, vcall, delivery, r2, history, env, kv, handlers, tasks>>

ReplyNext == GenerateSlackResponse

SpecReply == ReplyInit /\ [][ReplyNext]_vars


(***************************************************************************)
(* Properties of the delivery gateway (SpecSend).                          *)
(***************************************************************************)
Calls(trace) == SelectSeq(trace, LAMBDA e : e.op = "call")
Waits(trace) == SelectSeq(trace, LAMBDA e : e.op = "wait")
GenericKinds == {"error", "throw"}
AllGeneric(trace) == \A k \in 1..Len(trace) :
                        trace[k].op = "call" => trace[k].outcome.kind \in GenericKinds

\* C2: a send never issues more than maxRetries provider calls, whatever the
\* outcomes; when every call reports a generic provider error or a transport
\* failure, the calls alternate with waits of 2^attempt * 1000 ms (none after
\* the last call), the send cannot return, and once it has thrown it has
\* issued exactly maxRetries calls and carries an error.
C2_RetryBound ==
    LET trace == delivery.trace
        call == delivery.call
    IN  /\ Len(Calls(trace)) <= call.maxRetries
        /\ AllGeneric(trace) =>
             /\ call.status # "returned"
             /\ Len(trace) <= 2 * call.maxRetries - 1
             /\ \A k \in 1..Len(trace) :
                  IF k % 2 = 1
                  THEN trace[k].op = "call"
                  ELSE trace[k].op = "wait" /\ trace[k].ms = Pow(2, (k \div 2) - 1) * 1000
             /\ Len(Calls(trace)) < call.maxRetries => Len(trace) % 2 = 0
             /\ call.status = "thrown" =>
                  /\ Len(Calls(trace)) = call.maxRetries
                  /\ Len(Waits(trace)) = call.maxRetries - 1
                  /\ call.error # Absent

\* A send with three attempts, all failed generically (1 s and 2 s waited), has thrown.
C2_Witness ==
    /\ delivery.call.maxRetries = 3
    /\ delivery.call.status = "thrown"
    /\ AllGeneric(delivery.trace)
    /\ Len(Calls(delivery.trace)) = 3
    /\ [k \in 1..Len(Waits(delivery.trace)) |-> Waits(delivery.trace)[k].ms] = <<1000, 2000>>

\* The wait the provider indicated for a rate-limited call made as the
\* attempt-th call (zero-based), for a Retry-After header that is absent or a
\* number of seconds.
IndicatedWait(attempt, retryAfter) ==
    IF retryAfter = Missing THEN Pow(2, attempt) * 1000
    ELSE ParseDigits(retryAfter, 1, 0) * 1000
NumericOrAbsent(retryAfter) ==
    retryAfter = Missing \/ (retryAfter # <<>> /\ \A k \in 1..Len(retryAfter) : IsDigit(retryAfter[k]))

\* C3: every rate-limited call is followed at once by a wait of
\* Retry-After * 1000 ms when the header carries a number, of
\* 2^attempt * 1000 ms when there is no header; the send then goes on to the
\* next call while attempts remain; every call, rate-limited or not, consumes
\* one attempt; and rate-limit then success ends the send returned after
\* exactly two calls and that one wait.
C3_RateLimit ==
    LET trace == delivery.trace
        call == delivery.call
    IN  /\ \A k \in 1..Len(trace) :
             (trace[k].op = "call" /\ trace[k].outcome.kind = "rate_limited") =>
                /\ k < Len(trace)
                /\ trace[k + 1].op = "wait"
                /\ NumericOrAbsent(trace[k].outcome.retryAfter) =>
                     trace[k + 1].ms =
                        IndicatedWait(Len(Calls(SubSeq(trace, 1, k))) - 1,
                                      trace[k].outcome.retryAfter)
                /\ (k + 1 = Len(trace) /\ Len(Calls(trace)) < call.maxRetries) =>
                     call.status = "running" /\ LoopContinues(call)
        /\ call.status = "running" => call.attempt = Len(Calls(trace))
        /\ Len(Calls(trace)) <= call.maxRetries
        /\ ( /\ Len(Calls(trace)) = 2
             /\ Calls(trace)[1].outcome.kind = "rate_limited"
             /\ Calls(trace)[2].outcome.kind = "ok" ) =>
                /\ call.status = "returned"
                /\ Len(trace) = 3
                /\ Len(Waits(trace)) = 1
                /\ trace[2].op = "wait"

\* Rate-limited with Retry-After: 2 on the first call, success on the second.
C3_Witness ==
    /\ delivery.call.status = "returned"
    /\ Len(delivery.trace) = 3
    /\ delivery.trace[1] = TraceCall(Outcome("rate_limited", "rate_limited", <<"2">>))
    /\ delivery.trace[2] = TraceWait(2000)
    /\ delivery.trace[3].outcome.kind = "ok"

\* The failure a provider call reported.
ReportedError(outcome) ==
    CASE outcome.kind = "rate_limited" -> "rate_limited"
      [] outcome.kind = "error" ->
            IF outcome.error # Absent THEN outcome.error ELSE "Unknown Slack API error"
      [] outcome.kind = "throw" -> outcome.error
      [] OTHER -> Absent

\* C4: a send that has thrown after exhausting its attempts carries the
\* failure reported by its final attempt, rate-limited attempts included.
C4_LastError ==
    delivery.call.status = "thrown" =>
        LET calls == Calls(delivery.trace)
        IN  delivery.call.error = ReportedError(calls[Len(calls)].outcome)


(***************************************************************************)
(* Properties of the ledger store (SpecLedger).                            *)
(***************************************************************************)
\* How many times the entry occurs in the ledger content.
EntryCount(content, entry) ==
    IF content = Missing THEN 0
    ELSE Cardinality({i \in 0..(Len(content) - Len(entry)) :
                        \A j \in 1..Len(entry) : content[i + j] = entry[j]})
InSeq(x, seq) == \E k \in 1..Len(seq) : seq[k] = x

\* The last two captures were made for the same identity with the same text.
SameTextTwice ==
    /\ Len(history) >= 2
    /\ history[Len(history)].userId = history[Len(history) - 1].userId
    /\ history[Len(history)].reminder = history[Len(history) - 1].reminder

\* The text has a line holding at least two of its significant words
\* (words longer than 3 characters, a repeated word counted each time).
TwoWordsOnALine(reminder) ==
    \E k \in 1..Len(SplitLines(reminder, <<>>)) :
        LET lineLower == ToLowerCase(SplitLines(reminder, <<>>)[k])
            words == ReminderWords(reminder)
        IN  Cardinality({w \in 1..Len(words) : Includes(lineLower, words[w])}) >= 2

\* What the second of two captures of one text must have done.
SecondIsRefused(first, second) ==
    /\ EntryCount(r2[R2Key(second.userId)], NewEntry(second.today, second.reminder)) <= 1
    /\ first.outcome = "saved" =>
         /\ second.outcome = "similar"
         /\ ~second.put
         /\ \E k \in 1..Len(second.similarEntries) :
                InSeq(second.similarEntries[k],
                      NonEmptyLines(NewEntry(first.today, first.reminder)))

\* C5 as stated: capturing any text twice in a row for one identity never
\* leaves two entries of that text, and if the first capture saved, the
\* second answers similar-found, listing the saved line, and writes nothing.
C5_AnyTextTwice ==
    SameTextTwice => SecondIsRefused(history[Len(history) - 1], history[Len(history)])

\* C5, amended: the same, for every text that has a line holding at least
\* two of its significant words; the list of the second capture holds a line
\* of the entry the first one saved.
C5_TwoWordTextTwice ==
    (SameTextTwice /\ TwoWordsOnALine(history[Len(history)].reminder)) =>
        SecondIsRefused(history[Len(history) - 1], history[Len(history)])

\* "Call home" captured twice into an empty ledger: saved, then similar-found.
C5_Witness ==
    /\ SameTextTwice
    /\ Len(history) = 2
    /\ history[1].reminder = <<"C", "a", "l", "l", " ", "h", "o", "m", "e">>
    /\ history[1].outcome = "saved"
    /\ history[2].outcome = "similar"

\* The significant tokens of the candidate found in the line, each counted once.
SharedTokens(reminder, line) ==
    {word \in {ReminderWords(reminder)[k] : k \in 1..Len(ReminderWords(reminder))} :
        Includes(ToLowerCase(line), word)}

\* C6: in every capture, a ledger line sharing exactly one significant
\* token with the candidate (a repeated token counted once) is not listed as
\* similar, and a line sharing two or more is listed (and the capture then
\* answers similar-found).
C6_HeuristicBoundary ==
    \A k \in 1..Len(history) :
        LET lines == IF history[k].read = Missing THEN <<>>
                     ELSE NonEmptyLines(history[k].read)
        IN  \A n \in 1..Len(lines) :
              LET shared == Cardinality(SharedTokens(history[k].reminder, lines[n]))
              IN  /\ shared = 1 => ~InSeq(lines[n], history[k].similarEntries)
                  /\ shared >= 2 => /\ InSeq(lines[n], history[k].similarEntries)
                                    /\ history[k].outcome = "similar"


(***************************************************************************)
(* Properties of the verifier and of the dispatcher's gate (SpecVerify,    *)
(* SpecGate).                                                              *)
(***************************************************************************)
AllDigits(s) == s # Missing /\ s # <<>> /\ \A k \in 1..Len(s) : IsDigit(s[k])

\* Seconds between the clock and a timestamp header of decimal digits.
SecondsAway(clock, timestamp) == Abs((clock \div 1000) - ParseDigits(timestamp, 1, 0))

\* The invocation reached the verifier: POST, both secrets configured, both
\* headers present.
ReachedVerifier(h) ==
    /\ h.pc # "idle"
    /\ h.request.method = "POST"
    /\ env.SLACK_SIGNING_SECRET # Absent /\ env.SLACK_BOT_TOKEN # Absent
    /\ Truthy(h.request.timestamp) /\ Truthy(h.request.signature)

CorrectlySigned(request) ==
    /\ request.timestamp \in TimestampHeaders
    /\ request.signature = ComputedSignature(SlackSecret, request.timestamp, request.body)

\* C7: a request that reaches the verifier with a numeric timestamp more
\* than 300 seconds from the current second, before or after it, gets the
\* verdict false from the window check and the answer 401, whatever its
\* signature; at exactly 300 seconds the window check does not decide, and a
\* correctly signed request is then accepted.
C7_ReplayRejection ==
    LET h == handlers[1]
    IN  (ReachedVerifier(h) /\ AllDigits(h.request.timestamp)) =>
          /\ SecondsAway(nowMs, h.request.timestamp) > 300 =>
               /\ ~h.verdict.result
               /\ h.verdict.decidedBy = "window"
               /\ h.pc = "done"
               /\ h.response = Response(401, <<"Invalid signature">>)
               /\ h.kvReads = 0 /\ h.kvWrites = 0 /\ ~h.startedTask
          /\ SecondsAway(nowMs, h.request.timestamp) = 300 =>
               /\ h.verdict.decidedBy # "window"
               /\ CorrectlySigned(h.request) =>
                    h.verdict.result /\ h.response.status # 401

\* A correctly signed request stamped 301 seconds ahead of the clock has been
\* answered 401.
C7_Witness ==
    /\ handlers[1].pc = "done"
    /\ nowMs = 1000000
    /\ handlers[1].request.timestamp = <<"1", "3", "0", "1">>
    /\ ReachedVerifier(handlers[1])
    /\ CorrectlySigned(handlers[1].request)
    /\ env.SLACK_SIGNING_SECRET = SlackSecret
    /\ handlers[1].response.status = 401

InsideWindow(clock, timestamp) ==
    AllDigits(timestamp) /\ SecondsAway(clock, timestamp) <= 300

\* C8: verify returns true only for a timestamp inside the replay window
\* and a signature equal, character for character, to "v0=" followed by the
\* hex digest; after an accepted request, changing one character of the body
\* or of the signature makes it return false; a signature of another length
\* is rejected on its length, and otherwise every position is inspected.
C8_AcceptsOnlySignedInsideWindow ==
    LET expected == ComputedSignature(vcall.signingSecret, vcall.timestamp, vcall.body)
    IN  vcall.phase \in {"verified", "altered"} =>
          /\ vcall.verdict.result =>
               /\ InsideWindow(nowMs, vcall.timestamp)
               /\ vcall.signature = expected
          /\ (vcall.phase = "altered" /\ vcall.original.verdict.result) =>
               ~vcall.verdict.result
          /\ vcall.verdict.decidedBy # "window" =>
               IF Len(vcall.signature) # Len(expected)
               THEN vcall.verdict.decidedBy = "length" /\ ~vcall.verdict.result
               ELSE vcall.verdict.decidedBy = "compare"
                    /\ vcall.verdict.inspected = Len(expected)


\* C9: whenever the background task of an invocation exists (started, in a
\* send, waiting to retry, finished or failed), the invocation has already
\* returned 200 "OK"; and a response once returned never changes, whatever
\* the task does afterwards.
C9_AckBeforeDelivery ==
    /\ [](\A i \in Slots :
            /\ tasks[i].pc # "none" =>
                 /\ handlers[i].pc = "done"
                 /\ handlers[i].startedTask
                 /\ handlers[i].response = Ok200
            /\ handlers[i].startedTask => handlers[i].response = Ok200)
    /\ [][\A i \in Slots :
            handlers[i].pc = "done" =>
                /\ handlers'[i].pc = "done"
                /\ handlers'[i].response = handlers[i].response]_vars

\* The task was started, both its sends used up their attempts and the
\* failure was logged: the caller had its 200 "OK" all along.
C9_Witness ==
    /\ tasks[1].pc = "done"
    /\ tasks[1].result = "logged"
    /\ tasks[1].calls = 2 * DefaultMaxRetries
    /\ handlers[1].response = Ok200

\* The answer the listed order of rejections gives a request, 0 when none of
\* them applies.
RejectionStatus(request, environment, clock) ==
    IF request.method # "POST" THEN 405
    ELSE IF environment.SLACK_SIGNING_SECRET = Absent \/ environment.SLACK_BOT_TOKEN = Absent
    THEN 500
    ELSE IF ~Truthy(request.timestamp) \/ ~Truthy(request.signature) THEN 400
    ELSE IF ~verifySlackRequest(environment.SLACK_SIGNING_SECRET, request.timestamp,
                                request.body, request.signature, clock).result
    THEN 401
    ELSE IF JSONParse(request.body).threw THEN 400
    ELSE 0

\* C10: a finished invocation whose request falls under a rejection has
\* answered with the status of the first rejection that applies, has read
\* and written nothing in the idempotency store and has started no task;
\* every other finished invocation has answered with status 200.
C10_RejectionOrder ==
    \A i \in Slots :
        handlers[i].pc = "done" =>
            LET rejection == RejectionStatus(handlers[i].request, env, nowMs)
            IN  IF rejection # 0
                THEN /\ ~handlers[i].response.threw
                     /\ handlers[i].response.status = rejection
                     /\ handlers[i].kvReads = 0
                     /\ handlers[i].kvWrites = 0
                     /\ ~handlers[i].startedTask
                     /\ tasks[i].pc = "none"
                ELSE /\ ~handlers[i].response.threw
                     /\ handlers[i].response.status = 200


(***************************************************************************)
(* Properties of the idempotency guard (Spec).                             *)
(***************************************************************************)
\* Invocation second received the payload of invocation first after first
\* had returned; the payload is a non-bot event_callback with an event.ts;
\* first found no mark and wrote one; second looked the key up before that
\* mark's 24 hours were over.
CalledTwice(first, second) ==
    /\ first # second
    /\ handlers[first].pc = "done"
    /\ first \in handlers[second].after
    /\ handlers[second].request.body = handlers[first].request.body
    /\ handlers[first].event # NoEvent
    /\ handlers[first].event.ts # Absent
    /\ handlers[first].exit # "duplicate"
    /\ handlers[second].pc \in {"mark", "done"}
    /\ handlers[second].lookupAt < handlers[first].markedAt + 86400 * 1000

StartedBy(invocations) == Cardinality({i \in invocations : handlers[i].startedTask})

\* C1 as stated: the two calls start exactly one background task in total
\* and both return 200 "OK".
C1_ExactlyOneTask ==
    \A first \in Slots, second \in Slots :
        CalledTwice(first, second) =>
            /\ handlers[second].pc = "done"
            /\ StartedBy({first, second}) = 1
            /\ handlers[first].response = Ok200
            /\ handlers[second].response = Ok200

\* C1, amended: the second call is skipped as a duplicate (it writes no mark
\* and starts no task), both calls return 200 "OK", and the two start one
\* task in total when the event yields a message (text, channel and user)
\* and none when it does not.
C1_AtMostOneTask ==
    \A first \in Slots, second \in Slots :
        CalledTwice(first, second) =>
            /\ handlers[second].pc = "done"
            /\ handlers[second].exit = "duplicate"
            /\ handlers[second].kvWrites = 0
            /\ ~handlers[second].startedTask
            /\ tasks[second].pc = "none"
            /\ handlers[first].response = Ok200
            /\ handlers[second].response = Ok200
            /\ StartedBy({first, second}) =
                  IF HasMessage(handlers[first].event) THEN 1 ELSE 0

\* A direct message delivered at 1 000 s and again 86 399 s later: the first
\* call started the task, the second was skipped.
C1_Witness ==
    /\ CalledTwice(1, 2)
    /\ handlers[1].event = EvDirect
    /\ handlers[1].startedTask
    /\ handlers[1].markedAt = 1000000
    /\ handlers[2].lookupAt = 87399000
    /\ handlers[2].exit = "duplicate"


(***************************************************************************)
(* Further properties of the dispatcher's gate (SpecGate).                 *)
(***************************************************************************)
\* The invocation passed signature verification and its body parsed to a
\* payload.
VerifiedPayload(h) ==
    /\ ReachedVerifier(h)
    /\ h.verdict.result
    /\ ~JSONParse(h.request.body).threw
    /\ ~JSONParse(h.request.body).isNull

\* C11: a verified request whose payload has type "url_verification" is
\* answered at once with status 200, content type text/plain and the
\* payload's challenge as the whole body; the idempotency store is neither
\* read nor written and no background task is started.
C11_ChallengeHandshake ==
    LET h == handlers[1]
    IN  (VerifiedPayload(h) /\ JSONParse(h.request.body).payload.type = "url_verification") =>
          /\ h.pc = "done"
          /\ ~h.response.threw
          /\ h.response.status = 200
          /\ h.response.contentType = "text/plain"
          /\ h.response.body = JSONParse(h.request.body).payload.challenge
          /\ h.kvReads = 0 /\ h.kvWrites = 0
          /\ kv = {}
          /\ ~h.startedTask
          /\ tasks[1].pc = "none"

\* The challenge "abc", correctly signed, has been echoed.
C11_Witness ==
    /\ VerifiedPayload(handlers[1])
    /\ handlers[1].request.body = JsonText(1)
    /\ handlers[1].pc = "done"
    /\ handlers[1].response.body = <<"a", "b", "c">>


(***************************************************************************)
(* Further properties of the delivery gateway (SpecSend, SpecSendFair).    *)
(***************************************************************************)
OkCalls(trace) == SelectSeq(trace, LAMBDA e : e.op = "call" /\ e.outcome.kind = "ok")

\* C12: every send ends, returned or thrown, and stays as it ended; a
\* returned send issued its only successful call last; a thrown send issued
\* exactly maxRetries calls, none of them successful; while it runs no call
\* has succeeded yet.
C12_NoPartialSuccess ==
    /\ <>(delivery.call.status \in {"returned", "thrown"})
    /\ [](LET trace == delivery.trace
              call == delivery.call
          IN  /\ call.status = "returned" =>
                   /\ Len(OkCalls(trace)) = 1
                   /\ trace[Len(trace)].op = "call"
                   /\ trace[Len(trace)].outcome.kind = "ok"
                   /\ Len(Calls(trace)) <= call.maxRetries
              /\ call.status = "thrown" =>
                   /\ Len(Calls(trace)) = call.maxRetries
                   /\ Len(OkCalls(trace)) = 0
              /\ call.status = "running" => Len(OkCalls(trace)) = 0)
    /\ [][delivery.call.status # "running" => delivery' = delivery]_vars

\* Three attempts: a provider error, a rate limit, then success.
C12_Witness ==
    /\ delivery.call.maxRetries = 3
    /\ delivery.call.status = "returned"
    /\ Len(Calls(delivery.trace)) = 3
    /\ Calls(delivery.trace)[1].outcome.kind = "error"
    /\ Calls(delivery.trace)[2].outcome.kind = "rate_limited"


\* The invocation went past the bot check with its event.
PastGuard(h) == h.pc = "done" /\ h.exit \in {"dispatched", "no-message"}

\* Where the mention token at the head of the text ends: the position of its
\* closing ">" when the text opens with "<@", an id of letters and digits and
\* ">", and 0 otherwise.
LeadingMentionEnd(text) ==
    IF Len(text) >= 4 /\ text[1] = "<" /\ text[2] = "@"
       /\ \E k \in 4..Len(text) :
             text[k] = ">" /\ \A j \in 3..(k - 1) : IsAlnum(text[j])
    THEN CHOOSE k \in 4..Len(text) : text[k] = ">" /\ \A j \in 3..(k - 1) : IsAlnum(text[j])
    ELSE 0

\* C13: a task started for a direct message carries the event's text,
\* channel and thread_ts as they are; a task started for a mention carries
\* the event's channel, the event's own ts as its thread, and a text from
\* which the leading mention token is gone (when nothing else in the text
\* opens a mention, the text is what follows the token, trimmed); an event
\* of any other type starts no task.
C13_Extraction ==
    LET h == handlers[1]
        t == tasks[1]
        isDirect == h.event.type = "message" /\ h.event.channel_type = "im"
        isMention == h.event.type = "app_mention"
    IN  PastGuard(h) =>
          /\ (isDirect /\ h.startedTask) =>
               /\ t.userText = h.event.text
               /\ t.channelId = h.event.channel
               /\ t.threadTs = h.event.thread_ts
          /\ (isMention /\ h.startedTask) =>
               /\ t.channelId = h.event.channel
               /\ t.threadTs = h.event.ts
               /\ LeadingMentionEnd(h.event.text) > 0 =>
                    LET rest == SubSeq(h.event.text, LeadingMentionEnd(h.event.text) + 1,
                                       Len(h.event.text))
                    IN  /\ LeadingMentionEnd(t.userText) = 0
                        /\ t.userText # h.event.text
                        /\ (\A k \in 1..Len(rest) : rest[k] # "<") => t.userText = Trim(rest)
          /\ (~isDirect /\ ~isMention) => (~h.startedTask /\ t.pc = "none")

\* The mention "<@B1> hi" started a task with the text "hi", threaded on the
\* mention's own ts.
C13_Witness ==
    /\ PastGuard(handlers[1])
    /\ handlers[1].event = EvMention
    /\ tasks[1].userText = <<"h", "i">>
    /\ tasks[1].threadTs = "1700.03"
    /\ tasks[1].channelId = "C1"


(***************************************************************************)
(* Further properties of the ledger store (SpecLedger).                    *)
(***************************************************************************)
\* How many of the candidate's significant words (each occurrence counted)
\* are found in the lower-cased line.
MatchCount(reminder, line) ==
    Cardinality({w \in 1..Len(ReminderWords(reminder)) :
                    Includes(ToLowerCase(line), ReminderWords(reminder)[w])})

\* The lines of the blob with a match count of two or more, in ledger order.
SimilarLinesOf(blob, reminder) ==
    IF blob = Missing THEN <<>>
    ELSE SelectSeq(NonEmptyLines(blob), LAMBDA line : MatchCount(reminder, line) >= 2)

\* The step is a capture, and this is its record.
IsCapture == Len(history') = Len(history) + 1
Captured == history'[Len(history')]

\* C14: a capture that meets at least one similar line in the blob it reads
\* answers similar-found with exactly the similar lines, in ledger order
\* (every line sharing two distinct significant tokens among them), and
\* writes nothing: the blob of that identity and every other stored key
\* stay as they were.
C14_SimilarFoundWritesNothing ==
    [][(IsCapture /\ Len(SimilarLinesOf(Captured.read, Captured.reminder)) > 0) =>
          /\ Captured.read = r2[R2Key(Captured.userId)]
          /\ Captured.outcome = "similar"
          /\ Captured.similarEntries = SimilarLinesOf(Captured.read, Captured.reminder)
          /\ \A n \in 1..Len(NonEmptyLines(Captured.read)) :
                Cardinality(SharedTokens(Captured.reminder, NonEmptyLines(Captured.read)[n])) >= 2
                    => InSeq(NonEmptyLines(Captured.read)[n], Captured.similarEntries)
          /\ ~Captured.put
          /\ r2' = r2
          /\ kv' = kv
    ]_vars

\* A third capture found two similar lines in the ledger and left it alone.
C14_Witness ==
    /\ Len(history) = 3
    /\ history[3].outcome = "similar"
    /\ Len(history[3].similarEntries) = 2
    /\ r2[R2Key(history[3].userId)] = history[3].read


\* The blob as text: an absent blob reads as the empty text.
BlobText(blob) == IF blob = Missing THEN <<>> ELSE blob

IsPrefix(a, b) == Len(a) <= Len(b) /\ SubSeq(b, 1, Len(a)) = a

\* The text is one line "[date] text" closed by its only line feed.
IsOneDatedLine(suffix, today, reminder) ==
    /\ suffix = <<"[">> \o today \o <<"]", " ">> \o reminder \o <<"\n">>
    /\ \A k \in 1..(Len(suffix) - 1) : suffix[k] # "\n"

\* C15: every capture leaves the blob of its identity unchanged or replaces
\* it with the previous blob followed by exactly one new line "[date] text"
\* closed by a line feed, so the earlier blob is a prefix of the later one
\* and no line is changed or removed; the blobs of other identities are
\* untouched; and a capture on an absent or empty blob saves.
C15_AppendOnly ==
    [][IsCapture =>
          LET key == R2Key(Captured.userId)
              before == BlobText(r2[key])
              after == BlobText(r2'[key])
          IN  /\ \/ r2'[key] = r2[key]
                 \/ /\ IsPrefix(before, after)
                    /\ IsOneDatedLine(SubSeq(after, Len(before) + 1, Len(after)),
                                      Captured.today, Captured.reminder)
              /\ IsPrefix(before, after)
              /\ IsPrefix(NonEmptyLines(before), NonEmptyLines(after))
              /\ \A other \in R2Keys \ {key} : r2'[other] = r2[other]
              /\ before = <<>> => (Captured.outcome = "saved" /\ after # <<>>)
    ]_vars


(***************************************************************************)
(* Properties of concurrent captures (SpecLedgerRace).                     *)
(***************************************************************************)
EntryOf(call) == <<"[">> \o call.today \o <<"]", " ">> \o call.reminder \o <<"\n">>

\* The two texts are not similar to each other's entries.
MutuallyNonSimilar(a, b) ==
    /\ Len(SimilarLinesOf(EntryOf(b), a.reminder)) = 0
    /\ Len(SimilarLinesOf(EntryOf(a), b.reminder)) = 0

\* Two calls for one identity read the same blob before either wrote, and
\* both reported the reminder saved.
BothSavedFromOneRead(a, b) ==
    /\ a.userId = b.userId
    /\ a.pc = "done" /\ b.pc = "done"
    /\ a.outcome = "saved" /\ b.outcome = "saved"
    /\ a.read = b.read
    /\ MutuallyNonSimilar(a, b)

\* C16: a saving call writes the blob it read, followed by its entry, over
\* whatever the store holds by then (last write wins on the whole blob); so
\* when two calls for one identity, with mutually non-similar texts, have
\* both read before either wrote and both reported saved, the blob holds
\* only one of the two new entries.
C16_LastWriteWins ==
    /\ [][\A k \in 1..Len(history) :
            (history[k].pc = "read" /\ history'[k].pc = "done"
                                    /\ history'[k].outcome = "saved") =>
                r2'[R2Key(history[k].userId)] =
                    BlobText(history[k].read) \o EntryOf(history[k])]_vars
    /\ []((Len(history) = 2 /\ BothSavedFromOneRead(history[1], history[2])
                            /\ history[1].reminder # history[2].reminder) =>
            LET blob == r2[R2Key(history[1].userId)]
            IN  EntryCount(blob, EntryOf(history[1])) + EntryCount(blob, EntryOf(history[2])) = 1)

\* "call Bob" and "home Bob" for one user, both read from the empty ledger,
\* both reported saved: the blob holds the second writer's entry only, and
\* the blob the first writer left is not a prefix of it.
C16_Witness ==
    /\ Len(history) = 2
    /\ BothSavedFromOneRead(history[1], history[2])
    /\ history[1].read = Missing
    /\ history[1].reminder = <<"c", "a", "l", "l", " ", "B", "o", "b">>
    /\ history[2].reminder = <<"h", "o", "m", "e", " ", "B", "o", "b">>
    /\ r2[R2Key(history[1].userId)] = EntryOf(history[2])
    /\ ~IsPrefix(EntryOf(history[1]), r2[R2Key(history[1].userId)])


(***************************************************************************)
(* Further properties of the idempotency guard (Spec).                     *)
(***************************************************************************)
\* The invocations that were delivered the event with this key.
DeliveriesOf(key) == {i \in Slots : handlers[i].pc # "idle" /\ handlers[i].eventKey = key}

\* Invocation second arrived after first had returned, and looked the key
\* up while the mark first wrote was alive.
SawLiveMarkOf(first, second) ==
    /\ first \in handlers[second].after
    /\ handlers[first].kvWrites = 1
    /\ handlers[second].kvReads = 1
    /\ handlers[second].lookupAt < handlers[first].markedAt + 86400 * 1000

\* C17: the tasks started for one event never outnumber its deliveries, and
\* each delivery starts at most one; two deliveries of one event both start
\* a task only when neither looked the key up under the other's live mark,
\* that is, when they raced between lookup and mark or the mark had expired.
C17_CheckThenMarkRace ==
    /\ \A i \in Slots :
          /\ handlers[i].startedTask <=> tasks[i].pc # "none"
          /\ handlers[i].startedTask => handlers[i].kvWrites = 1
          /\ handlers[i].pc # "idle" =>
                Cardinality({j \in DeliveriesOf(handlers[i].eventKey) : handlers[j].startedTask})
                    <= Cardinality(DeliveriesOf(handlers[i].eventKey))
    /\ StartedBy(Slots) <= Cardinality({i \in Slots : handlers[i].pc # "idle"})
    /\ \A i \in Slots, j \in Slots :
          (i # j /\ handlers[i].eventKey = handlers[j].eventKey
                 /\ handlers[i].startedTask /\ handlers[j].startedTask) =>
              (~SawLiveMarkOf(i, j) /\ ~SawLiveMarkOf(j, i))

\* Two deliveries of one direct message, in flight together at 1 000 s: both
\* lookups found no mark, both wrote it, both started a task.
C17_Witness ==
    /\ handlers[1].event = EvDirect
    /\ handlers[2].event = EvDirect
    /\ handlers[1].eventKey = handlers[2].eventKey
    /\ handlers[1].after = {} /\ handlers[2].after = {}
    /\ handlers[1].lookupAt = 1000000 /\ handlers[2].lookupAt = 1000000
    /\ handlers[1].kvReads = 1 /\ handlers[2].kvReads = 1
    /\ handlers[1].kvWrites = 1 /\ handlers[2].kvWrites = 1
    /\ handlers[1].startedTask /\ handlers[2].startedTask
    /\ tasks[1].pc # "none" /\ tasks[2].pc # "none"


(***************************************************************************)
(* Properties of the paths past the bot check (SpecGate).                  *)
(***************************************************************************)
\* C18: an invocation whose event yields no usable text, no channel or no
\* user is acknowledged with 200 "OK", starts no background task and writes
\* no idempotency mark; a mark is written only by an invocation that starts
\* a background task.
C18_NoMessageNoAction ==
    LET h == handlers[1]
    IN  /\ (h.pc = "done" /\ h.event # NoEvent /\ ~HasMessage(h.event)) =>
             /\ h.response = Ok200
             /\ ~h.startedTask
             /\ tasks[1].pc = "none"
             /\ h.kvWrites = 0
             /\ kv = {}
        /\ h.kvWrites > 0 => h.startedTask


\* C19: a verified event_callback whose event carries a bot_id is answered
\* 200 "OK" at once, whatever its type and text: the idempotency store is
\* neither read nor written, no task is started and no provider call made.
C19_LoopPrevention ==
    LET h == handlers[1]
        payload == JSONParse(h.request.body).payload
    IN  (VerifiedPayload(h) /\ payload.type = "event_callback"
                            /\ payload.event # NoEvent /\ payload.event.bot_id # Absent) =>
          /\ h.pc = "done"
          /\ h.response = Ok200
          /\ h.kvReads = 0 /\ h.kvWrites = 0
          /\ kv = {}
          /\ ~h.startedTask
          /\ tasks[1].pc = "none"
          /\ tasks[1].calls = 0

\* A bot's own mention of the app, correctly signed, has been acknowledged.
C19_Witness ==
    /\ VerifiedPayload(handlers[1])
    /\ JSONParse(handlers[1].request.body).payload.event = EvBotMention
    /\ handlers[1].pc = "done"
    /\ handlers[1].response = Ok200

\* The provider calls a task made in its primary send, and in its fallback.
PrimaryCalls(task) == SelectSeq(task.sent, LAMBDA c : c.send = "primary")

FallbackCalls(task) == SelectSeq(task.sent, LAMBDA c : c.send = "fallback")

\* What holds of a task in every state of its life.
TaskContained(i) ==
    LET task == tasks[i]
        primary == PrimaryCalls(task)
        fallback == FallbackCalls(task)
    IN  /\ task.pc # "none" => handlers[i].startedTask
        /\ task.invocations <= 2
        /\ task.calls = Len(task.sent)
        /\ task.sent = primary \o fallback
        /\ Len(primary) <= DefaultMaxRetries
        /\ Len(fallback) <= DefaultMaxRetries
        /\ task.calls <= 2 * DefaultMaxRetries
        /\ \A k \in 1..Len(primary) : primary[k].text = "response"
        /\ (task.pc = "fallback" \/ Len(fallback) > 0) =>
             /\ task.invocations = 2
             /\ Len(primary) = DefaultMaxRetries
             /\ \A k \in 1..Len(primary) : ~primary[k].ok
        /\ \A k \in 1..Len(fallback) :
             /\ fallback[k].text = FallbackText
             /\ fallback[k].channel = task.channelId
             /\ fallback[k].thread_ts = task.threadTs
             /\ fallback[k].channel = primary[1].channel
             /\ fallback[k].thread_ts = primary[1].thread_ts
        /\ task.pc = "done" <=> task.result # "none"
        /\ task.result \in {"none", "delivered", "apology delivered", "logged"}
        /\ task.result = "delivered" =>
             /\ task.invocations = 1
             /\ Len(fallback) = 0
             /\ primary[Len(primary)].ok
        /\ task.result = "apology delivered" =>
             /\ fallback[Len(fallback)].ok
        /\ task.result = "logged" =>
             /\ Len(fallback) = DefaultMaxRetries
             /\ \A k \in 1..Len(fallback) : ~fallback[k].ok
        /\ handlers[i].pc = "done" /\ handlers[i].startedTask =>
             handlers[i].response = Ok200

\* C20: a request starts at most one task, and the task contains its own
\* failures: the fallback send starts only after the primary send made
\* DefaultMaxRetries unsuccessful provider calls, it is the only fallback
\* send, it makes at most DefaultMaxRetries calls, each carrying the fixed
\* apology to the channel and thread of the primary send; when it fails too
\* the task ends with the failure logged. No fallback call follows a
\* delivered reply, a task makes at most 2 * DefaultMaxRetries provider
\* calls, the response of the handler stays 200 "OK", a finished task stays
\* finished, and every task that starts finishes.
C20_TaskContainsFailures ==
    /\ [](\A i \in Slots : TaskContained(i))
    /\ [][\A i \in Slots :
            /\ tasks[i].pc = "done" => tasks'[i] = tasks[i]
            /\ tasks'[i].invocations > tasks[i].invocations =>
                 tasks[i].pc \in {"generate", "primary"}]_vars
    /\ \A i \in Slots : (tasks[i].pc # "none") ~> (tasks[i].pc = "done")

\* The primary send used up its attempts and the apology went through on
\* the second call of the fallback send.
C20_Witness ==
    /\ tasks[1].result = "apology delivered"
    /\ tasks[1].calls = DefaultMaxRetries + 2
    /\ tasks[1].invocations = 2
    /\ handlers[1].response = Ok200

\* The value a tool result contributes: the first of its value, result and
\* output that is not undefined, else the string it is.
HasSource(tr) ==
    /\ tr.shape # "null"
    /\ \/ tr.shape = "string"
       \/ \E f \in {"value", "result", "output"} : tr[f] # Undefined

Stringified(tr) ==
    IF tr.value # Undefined THEN String(tr.value)
    ELSE IF tr.result # Undefined THEN String(tr.result)
    ELSE IF tr.output # Undefined THEN String(tr.output)
    ELSE tr.raw

NotBlank(chars) == \E k \in 1..Len(chars) : ~IsSpace(chars[k])

AnyValue(chars) == TRUE

NoEngineText(result) ==
    \/ result.text = Undefined
    \/ result.text.t = "string" /\ ~NotBlank(result.text.s)

ToolsInvoked(result) ==
    /\ result.toolCalls.defined /\ result.toolCalls.length > 0
    /\ result.toolResults.isArray /\ Len(result.toolResults.items) > 0

\* The reply of a finished call, with Joined(_) deciding which tool-result
\* values are joined.
ReplyFollowsChain(Joined(_)) ==
    gen.pc = "returned" =>
      /\ ~gen.raised
      /\ gen.returned # Missing /\ Len(gen.returned) > 0
      /\ ~Truthy(gen.apiKey) =>
           gen.returned = NotConfiguredText /\ gen.engineCalls = 0
      /\ Truthy(gen.apiKey) =>
           /\ gen.engineCalls = 1
           /\ gen.engine.kind = "rejected" =>
                gen.returned = ErrorPrefix \o gen.engine.message
           /\ gen.engine.kind = "resolved" =>
                LET result == gen.engine.result
                    items == result.toolResults.items
                    usable == SelectSeq(items,
                                LAMBDA tr : HasSource(tr) /\ Joined(Stringified(tr)))
                IN  /\ result.text.t = "string" /\ NotBlank(result.text.s) =>
                         /\ gen.returned = Trim(result.text.s)
                         /\ NotBlank(gen.returned)
                    /\ result.text.t = "number" =>
                         IsPrefix(ErrorPrefix, gen.returned)
                    /\ NoEngineText(result) /\ ~ToolsInvoked(result) =>
                         gen.returned = NoTextResponse
                    /\ NoEngineText(result) /\ ToolsInvoked(result) =>
                         IF \E k \in 1..Len(items) : items[k] = NullResult
                         THEN IsPrefix(ErrorPrefix, gen.returned)
                         ELSE IF usable = <<>>
                         THEN gen.returned = NoTextResponse
                         ELSE gen.returned =
                                Join([k \in 1..Len(usable) |-> Stringified(usable[k])],
                                     <<"\n">>)

\* C21 as stated: the reply is the engine's text trimmed when that is not
\* blank; otherwise, when tools were invoked, the stringified values of the
\* tool results joined by line feeds, every value included; otherwise the
\* fixed message.  Without a credential it is the "not configured" message
\* and the engine is not called; when the engine call or the extraction
\* raises it is an apology; it is never empty and the call never raises.
C21_JoinsEveryValue == ReplyFollowsChain(AnyValue)

\* C21, amended: as above, but only the tool-result values that are not
\* blank after trimming are joined, and the fixed message is returned when
\* none is left.
C21_JoinsNonBlankValues == ReplyFollowsChain(NotBlank)

\* Tools were invoked, the engine gave no text, and one of two tool results
\* is blank: the reply is the other one alone.
C21_Witness ==
    /\ gen.pc = "returned"
    /\ Truthy(gen.apiKey)
    /\ gen.engine.kind = "resolved"
    /\ NoEngineText(gen.engine.result)
    /\ ToolsInvoked(gen.engine.result)
    /\ gen.engine.result.toolResults.items =
         <<ObjectResult(JsString(<<"a">>), Undefined, Undefined),
           ObjectResult(JsString(<<" ">>), Undefined, Undefined)>>
    /\ gen.returned = <<"a">>

\* The invocation has derived its idempotency key.
HasKey(i) == handlers[i].pc # "idle" /\ handlers[i].event # NoEvent /\ handlers[i].exit # "bot"

\* The other deliveries of the same payload that were received at the
\* same millisecond.
SameMsDeliveries(i) ==
    {j \in Slots \ {i} :
        /\ handlers[j].pc # "idle"
        /\ handlers[j].request.body = handlers[i].request.body
        /\ handlers[j].receivedAt = handlers[i].receivedAt}

\* C22: the key of an event that carries a ts is made of that ts alone;
\* the key of an event that carries none is made of its type, its user and
\* the millisecond of receipt.  So deliveries of one payload without ts
\* received at different milliseconds have different keys, none of them is
\* skipped on account of another, and each one that has finished has
\* written its own mark and started its own task.
C22_KeyDerivation ==
    \A i \in Slots :
        HasKey(i) =>
            LET h == handlers[i]
            IN  /\ h.event.ts # Absent =>
                     h.eventKey = <<"slack-event:", h.event.ts>>
                /\ h.event.ts = Absent =>
                     /\ h.eventKey = <<"slack-event:", h.event.type, "-", h.event.user, "-",
                                       FormatInt(h.receivedAt)>>
                     /\ \A j \in Slots \ {i} :
                          (HasKey(j) /\ handlers[j].request.body = h.request.body
                                     /\ handlers[j].receivedAt # h.receivedAt) =>
                              handlers[j].eventKey # h.eventKey
                     /\ (h.pc = "done" /\ SameMsDeliveries(i) = {}) =>
                          /\ h.exit # "duplicate"
                          /\ h.kvWrites = 1
                          /\ h.response = Ok200
                          /\ HasMessage(h.event) => h.startedTask /\ tasks[i].pc # "none"

\* A direct message without ts delivered twice, one millisecond apart: both
\* deliveries started a task.
C22_Witness ==
    /\ handlers[1].event = EvNoTs /\ handlers[2].event = EvNoTs
    /\ handlers[1].request = handlers[2].request
    /\ handlers[1].receivedAt = 1000000 /\ handlers[2].receivedAt = 1000001
    /\ handlers[1].pc = "done" /\ handlers[2].pc = "done"
    /\ handlers[1].startedTask /\ handlers[2].startedTask
    /\ tasks[1].pc # "none" /\ tasks[2].pc # "none"

\* The calls the send had made when it reached position k of its trace.
CallsBefore(trace, k) == Len(Calls(SubSeq(trace, 1, k)))

\* C23: a send waits only while attempts remain: every wait comes after
\* fewer than maxRetries calls, so a send makes at most maxRetries - 1
\* waits, and a send that has returned or thrown did so right after a call,
\* whatever that call reported.
C23_WaitsOnlyBeforeRetry ==
    LET trace == delivery.trace
        call == delivery.call
    IN  /\ \A k \in 1..Len(trace) :
             trace[k].op = "wait" => CallsBefore(trace, k) < call.maxRetries
        /\ Len(Waits(trace)) <= call.maxRetries - 1
        /\ (call.status \in {"returned", "thrown"} /\ Len(trace) > 0) =>
             trace[Len(trace)].op = "call"

\* The invocation has echoed a challenge, read or written the idempotency
\* store, or started the task that invokes the orchestrator (whose tools
\* alone write the ledger) and sends the reply.
ActedOnRequest(i) ==
    \/ handlers[i].exit = "challenge"
    \/ handlers[i].kvReads > 0 \/ handlers[i].kvWrites > 0
    \/ handlers[i].lookupAt > 0 \/ handlers[i].markedAt > 0
    \/ handlers[i].pc \in {"lookup", "mark"}
    \/ handlers[i].startedTask
    \/ tasks[i].pc # "none" \/ tasks[i].calls > 0 \/ Len(tasks[i].sent) > 0

\* verifySlackRequest was called on the headers and the body of the request
\* and returned true.
PassedVerification(i) ==
    LET h == handlers[i]
    IN  /\ ReachedVerifier(h)
        /\ h.verdict.result
        /\ verifySlackRequest(env.SLACK_SIGNING_SECRET, h.request.timestamp,
                              h.request.body, h.request.signature, h.receivedAt).result

\* C24: an invocation that has echoed a challenge, touched the idempotency
\* store or started its task has passed verifySlackRequest on its own
\* timestamp header, body and signature header; an invocation that has not
\* passed it has ended with an error status and has left the idempotency
\* store, the ledger, the tasks and the orchestrator untouched.
C24_AuthenticityGate ==
    \A i \in Slots :
        /\ ActedOnRequest(i) => PassedVerification(i)
        /\ (handlers[i].pc # "idle" /\ ~PassedVerification(i)) =>
             /\ handlers[i].pc = "done"
             /\ handlers[i].response.status \in {400, 401, 405, 500}
             /\ kv = {}
             /\ r2 = EmptyBucket
             /\ tasks = IdleTasks
             /\ gen = IdleGen

\* A correctly signed direct message went all the way: looked up, marked,
\* its task started and the reply delivered.
C24_Witness ==
    /\ PassedVerification(1)
    /\ handlers[1].event = EvDirect
    /\ handlers[1].kvReads = 1 /\ handlers[1].kvWrites = 1
    /\ kv # {}
    /\ tasks[1].result = "delivered"

\* The key of a user's ledger, spelled out.
LedgerKeyOf(userId) == <<"reminders", userId, "reminders.md">>

\* The step starts a tool call (the read of a capture, or a getReminders
\* call), and this is its record.
StartsToolCall == Len(history') = Len(history) + 1
Started == history'[Len(history')]

\* The lines getReminders lists from a blob: its non-empty lines, or those
\* of them that contain the search term, letter case ignored.
ListedFrom(blob, search) ==
    LET own == NonEmptyLines(BlobText(blob))
    IN  IF search \in {Missing, <<>>} THEN own
        ELSE SelectSeq(own, LAMBDA line : Includes(ToLowerCase(line), ToLowerCase(search)))

\* The line belongs to an entry that a capture by that user has saved.
SavedBy(userId, line) ==
    \E k \in 1..Len(history) :
        /\ history[k].userId = userId
        /\ history[k].put
        /\ InSeq(line, NonEmptyLines(NewEntry(history[k].today, history[k].reminder)))

\* C25: the tools of user U work on the key reminders/U/reminders.md alone.
\* Every tool call reads the blob under the key of its own user; the write
\* of a capture by U leaves the blob of every other user as it was; no tool
\* call changes an idempotency mark; and a getReminders call by U lists
\* exactly the non-empty lines of U's blob (those containing the search term,
\* letter case ignored, when a term is given), every one of them a line
\* that a capture by U saved.
C25_PerUserIsolation ==
    /\ [](/\ \A u \in Users : R2Key(u) = LedgerKeyOf(u)
          /\ DOMAIN r2 = {LedgerKeyOf(u) : u \in Users}
          /\ \A k \in 1..Len(history) :
                IsReadCall(history[k]) =>
                    \A n \in 1..Len(history[k].lines) :
                        SavedBy(history[k].userId, history[k].lines[n]))
    /\ [][/\ kv' = kv
          /\ StartsToolCall =>
               /\ r2' = r2
               /\ Started.read = r2[LedgerKeyOf(Started.userId)]
               /\ IsReadCall(Started) =>
                    /\ Started.lines = ListedFrom(r2[LedgerKeyOf(Started.userId)],
                                                  Started.search)
                    /\ Started.text = IF Started.lines # <<>>
                                      THEN Join(Started.lines, <<"\n">>)
                                      ELSE Started.text
                    /\ Started.outcome = "listed" <=> Started.lines # <<>>
          /\ \A k \in 1..Len(history) :
               (Len(history') = Len(history) /\ history'[k] # history[k]) =>
                   \A u \in Users \ {history[k].userId} :
                       r2'[LedgerKeyOf(u)] = r2[LedgerKeyOf(u)]
         ]_vars

\* U2 and U1 each saved a reminder; U1 then asked for the reminders and got
\* one line, while U2's ledger holds another.
C25_Witness ==
    /\ Len(history) = 3
    /\ history[1].userId = "U2" /\ history[1].put
    /\ history[2].userId = "U1" /\ history[2].put
    /\ IsReadCall(history[3])
    /\ history[3].userId = "U1"
    /\ history[3].outcome = "listed"
    /\ Len(history[3].lines) = 1
    /\ r2[LedgerKeyOf("U2")] # Missing
    /\ r2[LedgerKeyOf("U2")] # r2[LedgerKeyOf("U1")]
    /\ kv = {StandingMark}

=============================================================================
